---- MODULE Spec2Model ----
(***************************************************************************)
(* Webflow MCP connector (src/index.js, second program, lines 378-930):    *)
(* the upstream client wf, the item routes, listAllItems and GET /audit    *)
(* with its smoke test.  One HTTP request is handled per behaviour; the    *)
(* upstream service is the environment and answers every fetch with a      *)
(* reply drawn from a bounded set.                                         *)
(***************************************************************************)
EXTENDS Integers, Sequences, FiniteSets, TLC

VARIABLES
    cfg,          \* process.env as destructured at start-up (immutable)
    req,          \* the HTTP request being handled
    pc,           \* position of the handler
    calls,        \* every fetch sent upstream, in order, with the reply it got
    wfRet,        \* what each invocation of wf gave back to its caller, in order
    la,           \* frame of listAllItems: items, offset, number of pages fetched
    collections,  \* GET /audit: the collections to walk
    ci,           \* GET /audit: index of the collection being processed
    report,       \* GET /audit: the report under construction
    smoke,        \* GET /audit: the smoke record under construction
    createdItemId,\* GET /audit: the identifier extracted from the create reply
    res,          \* the HTTP response written, or NoRes
    results,      \* GET /collections: the array handed to Promise.all, one slot per lookup
    clock,        \* Date.now(), in milliseconds
    runs,         \* two GET /audit handlers in progress at a time: each one's smoke test
    responses,    \* POST /mcp: the responses collected so far
    mi,           \* POST /mcp: index of the batch message being handled
    sseClients,   \* GET /mcp: the registry of open event streams
    intervals,    \* GET /mcp: the heartbeat timers that are set
    conn          \* GET /mcp: each connection, as its client sees it

\* the state of the handlers that run several things at a time, and of the
\* MCP endpoint
aside == <<results, clock, runs, responses, mi, sseClients, intervals, conn>>

vars ==
    <<cfg, req, pc, calls, wfRet, la, collections, ci, report, smoke, createdItemId, res,
      aside>>

AsideIdle == UNCHANGED aside
SummaryIdle == UNCHANGED results
OverlapIdle == UNCHANGED <<clock, runs>>
McpIdle == UNCHANGED <<responses, mi>>
SseIdle == UNCHANGED <<sseClients, intervals, conn>>

SummaryInit == results = <<>>
OverlapInit == clock = 0 /\ runs = <<>>
McpInit == responses = <<>> /\ mi = 0
SseInit == sseClients = {} /\ intervals = {} /\ conn = <<>>
AsideInit == SummaryInit /\ OverlapInit /\ McpInit /\ SseInit

------------------------------------------------------------------------------
(* Bounds of the model *)

\* listAllItems has no cap of its own; the model stops asking the upstream for
\* another page after MaxPages pages (the loop is then still running).
MaxPages == 3

(* Program constants *)

\* listAllItems(collectionId, pageSize = 100)
DefaultPageSize == 100

------------------------------------------------------------------------------
(* JavaScript values *)

Undef == "undefined"
Null == [null |-> TRUE]
\* {}: the object without properties (<<>> is the empty array)
EmptyObject == [object |-> TRUE]

\* typeof, with arrays told from the other objects (Array.isArray); the value's
\* printed form starts with the mark of its kind
TypeOf(v) ==
    LET h == SubSeq(ToString(v), 1, 1)
    IN  CASE h = "[" -> "object"
          [] h = "\"" -> IF v = Undef THEN "undefined" ELSE "string"
          [] h = "<" -> "array"
          [] h \in {"T", "F"} -> "boolean"
          [] OTHER -> "number"

IsArray(v) == TypeOf(v) = "array"
IsNull(v) == TypeOf(v) = "object" /\ v = Null
\* v == null: null or undefined
NullOrUndefined ==
    [object |-> {Null}, undefined |-> {Undef}, string |-> {}, boolean |-> {}, number |-> {},
     array |-> {}]
Nullish(v) == v \in NullOrUndefined[TypeOf(v)]
\* a ?? b
Coalesce(a, b) == IF Nullish(a) THEN b ELSE a

\* ToBoolean: undefined, null, "", 0 and false are falsy
Falsy ==
    [object |-> {Null}, undefined |-> {Undef}, string |-> {""}, boolean |-> {FALSE},
     number |-> {0}, array |-> {}]
Truthy(v) == v \notin Falsy[TypeOf(v)]

Or(a, b) == IF Truthy(a) THEN a ELSE b

\* `${v}`, String(v): a string stays as it is, a number is printed, an array is
\* its elements joined by commas (null and undefined elements are empty), any
\* other object is "[object Object]"
RECURSIVE Str(_), Join(_, _)
Str(v) ==
    LET t == TypeOf(v)
    IN  CASE t = "object" -> IF v = Null THEN "null" ELSE "[object Object]"
          [] t = "number" -> ToString(v)
          [] t = "boolean" -> IF v THEN "true" ELSE "false"
          [] t = "array" -> Join(v, Len(v))
          [] OTHER -> v
\* the first n elements of the array a, joined
Join(a, n) ==
    IF n = 0 THEN ""
    ELSE (IF n = 1 THEN "" ELSE Join(a, n - 1) \o ",")
         \o (IF Nullish(a[n]) THEN "" ELSE Str(a[n]))

Get(o, k) == IF k \in DOMAIN o THEN o[k] ELSE Undef
Has(o, k) == k \in DOMAIN o
\* v?.k: the property of an object, undefined of anything else
Prop(v, k) == IF TypeOf(v) = "object" THEN Get(v, k) ELSE Undef
\* Object.keys of an object
Keys(o) == IF o = EmptyObject THEN {} ELSE DOMAIN o
\* Object.keys of a request body: the indices of an array, the keys of an object
ObjectKeys(v) ==
    IF IsArray(v) THEN 1..Len(v)
    ELSE IF IsArray(Prop(v, "array")) THEN 1..Len(v.array)
    ELSE Keys(v)
\* the object whose properties are those of the function f
Obj(f) == IF DOMAIN f = {} THEN EmptyObject ELSE f
\* "Cannot read properties of null (reading 'k')"
\* the message of the TypeError for v.k, v null or undefined
BadRead(v, k) == "Cannot read properties of " \o Str(v) \o " (reading '" \o k \o "')"
NoBody == [absent |-> TRUE]
NoQuery == [absent |-> TRUE]
NoRes == [written |-> FALSE]

------------------------------------------------------------------------------
(* Replies of the upstream service (the environment) *)

\* a reply whose body is the JSON value b
HttpReply(s, b) == [net |-> FALSE, status |-> s, body |-> b, json |-> TRUE]
\* a reply whose body is the text t, which is not JSON ("" is the empty body)
TextReply(s, t) == [net |-> FALSE, status |-> s, body |-> [raw |-> t], json |-> FALSE]
\* fetch itself rejects (connection refused, DNS): a TypeError without status
NetFail == [net |-> TRUE, status |-> 0, body |-> [raw |-> "fetch failed"], json |-> FALSE]

ReplyVersionMismatch ==
    HttpReply(400, [err |-> "UnsupportedVersion", message |-> "Valid range is 1.0.0"])
ReplyAltKeyRequired == HttpReply(400, [message |-> "'fields' is required"])
ReplyValidation == HttpReply(400, [message |-> "Validation Error", msg |-> "bad request"])
ReplyNotFound == HttpReply(404, [msg |-> "Not Found"])
ReplyServerError == TextReply(500, "<html>")

ErrReplies ==
    {ReplyVersionMismatch, ReplyAltKeyRequired, ReplyValidation, ReplyNotFound,
     ReplyServerError, NetFail}

ResOk(up) == ~up.net /\ up.status >= 200 /\ up.status <= 299

------------------------------------------------------------------------------
(* class HttpError and the errors a handler can see *)

\* super(message || `HTTP ${status}`); this.status = status || 500
HttpError(status, message, details) ==
    [status |-> IF status = 0 THEN 500 ELSE status,
     message |-> IF Truthy(message) THEN Str(message) ELSE "HTTP " \o ToString(status),
     details |-> details, http |-> TRUE]
\* details left undefined
NoDetails == [present |-> FALSE]
\* an error that is not an HttpError: no status, no details
TypeError(message) == [status |-> 0, message |-> message, details |-> NoDetails, http |-> FALSE]

\* `Webflow API error ${res.status}`
GenericMessage(status) == "Webflow API error " \o ToString(status)

\* try { data = text ? JSON.parse(text) : null } catch { data = { raw: text } }
Parsed(up) ==
    IF up.json THEN up.body ELSE IF up.body.raw = "" THEN Null ELSE up.body

\* data?.err || data?.message || data?.msg || `Webflow API error ${res.status}`
ErrorMessage(up) ==
    Or(Prop(Parsed(up), "err"),
       Or(Prop(Parsed(up), "message"),
          Or(Prop(Parsed(up), "msg"), GenericMessage(up.status))))

------------------------------------------------------------------------------
(* wf: the upstream client.  up is the reply the upstream gives to a fetch. *)

\* body ? ... : undefined
HasBody(body) == body # NoBody /\ Truthy(body)

Headers(body) ==
    {"Authorization", "User-Agent"} \cup (IF HasBody(body) THEN {"Content-Type"} ELSE {})

\* the methods fetch does not send
ForbiddenMethods == {"CONNECT", "TRACE", "TRACK"}

\* fetch(url, {method, body}) rejects, before anything is sent, a request of a
\* forbidden method, and a GET or HEAD request that has a body
FetchRefuses(method, body) ==
    method \in ForbiddenMethods \/ (method \in {"GET", "HEAD"} /\ HasBody(body))
\* the message of the TypeError, the method being looked at before the body
RefusedMessage(method) ==
    IF method \in ForbiddenMethods THEN "'" \o method \o "' HTTP method is unsupported."
    ELSE "Request with GET/HEAD method cannot have body."

Fetch(method, path, query, body, up) ==
    [method |-> method, path |-> path, query |-> query, body |-> body,
     headers |-> Headers(body), reply |-> up]

Returned(data) == [ok |-> TRUE, data |-> data]
Thrown(e) == [ok |-> FALSE, error |-> e]

\* a client that tries the request a second time after a 400
wfRetryOn400(method, path, query, body, up) ==
    IF ~cfg.apiKey
    THEN [fetches |-> <<>>,
          ret |-> Thrown(HttpError(500, "WEBFLOW_API_KEY is not configured", NoDetails))]
    ELSE IF FetchRefuses(method, body)
    THEN [fetches |-> <<>>, ret |-> Thrown(TypeError(RefusedMessage(method)))]
    ELSE IF up.net
    THEN [fetches |-> <<Fetch(method, path, query, body, up)>>,
          ret |-> Thrown(TypeError("fetch failed"))]
    ELSE IF ~ResOk(up)
    THEN [fetches |->
             IF up.status = 400
             THEN <<Fetch(method, path, query, body, up), Fetch(method, path, query, body, up)>>
             ELSE <<Fetch(method, path, query, body, up)>>,
          ret |-> Thrown(HttpError(up.status, ErrorMessage(up),
                       [path |-> path, data |-> Parsed(up),
                        status |-> up.status]))]
    ELSE [fetches |-> <<Fetch(method, path, query, body, up)>>, ret |-> Returned(Parsed(up))]

\* a client that negotiates the protocol generation: after a 400 with the
\* version-mismatch signature it asks once more with the legacy version tag
wfLegacyFallback(method, path, query, body, up) ==
    IF ~cfg.apiKey
    THEN [fetches |-> <<>>,
          ret |-> Thrown(HttpError(500, "WEBFLOW_API_KEY is not configured", NoDetails))]
    ELSE IF FetchRefuses(method, body)
    THEN [fetches |-> <<>>, ret |-> Thrown(TypeError(RefusedMessage(method)))]
    ELSE IF up.net
    THEN [fetches |-> <<Fetch(method, path, query, body, up)>>,
          ret |-> Thrown(TypeError("fetch failed"))]
    ELSE IF ~ResOk(up)
    THEN [fetches |->
             IF up.status = 400 /\ ErrorMessage(up) = "UnsupportedVersion"
             THEN <<Fetch(method, path, query, body, up),
                    [Fetch(method, path, query, body, up) EXCEPT
                        !.headers = @ \cup {"Accept-Version"}]>>
             ELSE <<Fetch(method, path, query, body, up)>>,
          ret |-> Thrown(HttpError(up.status, ErrorMessage(up),
                       [path |-> path, data |-> Parsed(up),
                        status |-> up.status]))]
    ELSE [fetches |-> <<Fetch(method, path, query, body, up)>>, ret |-> Returned(Parsed(up))]

wf(method, path, query, body, up) ==
    IF ~cfg.apiKey
    THEN [fetches |-> <<>>,
          ret |-> Thrown(HttpError(500, "WEBFLOW_API_KEY is not configured", NoDetails))]
    ELSE IF FetchRefuses(method, body)
    THEN [fetches |-> <<>>, ret |-> Thrown(TypeError(RefusedMessage(method)))]
    ELSE IF up.net
    THEN [fetches |-> <<Fetch(method, path, query, body, up)>>,
          ret |-> Thrown(TypeError("fetch failed"))]
    ELSE IF ~ResOk(up)
    THEN [fetches |-> <<Fetch(method, path, query, body, up)>>,
          ret |-> Thrown(HttpError(up.status, ErrorMessage(up),
                       [path |-> path, data |-> Parsed(up),
                        status |-> up.status]))]
    ELSE [fetches |-> <<Fetch(method, path, query, body, up)>>, ret |-> Returned(Parsed(up))]

\* the fetches of one invocation of wf enter the log tagged with its number
Invoke(r) ==
    /\ calls' = calls \o [i \in 1..Len(r.fetches) |->
                            [wfId |-> Len(wfRet) + 1, attempt |-> i,
                             method |-> r.fetches[i].method, path |-> r.fetches[i].path,
                             query |-> r.fetches[i].query, body |-> r.fetches[i].body,
                             headers |-> r.fetches[i].headers,
                             reply |-> r.fetches[i].reply]]
    /\ wfRet' = Append(wfRet, r.ret)

------------------------------------------------------------------------------
(* Helpers of the routes *)

Uppers == "ABCDEFGHIJKLMNOPQRSTUVWXYZ"
Lowers == "abcdefghijklmnopqrstuvwxyz"

\* one character in lower case
LowerChar(c) ==
    IF \E i \in 1..Len(Uppers) : SubSeq(Uppers, i, i) = c
    THEN LET i == CHOOSE j \in 1..Len(Uppers) : SubSeq(Uppers, j, j) = c
         IN  SubSeq(Lowers, i, i)
    ELSE c

\* String.prototype.toLowerCase
RECURSIVE ToLower(_)
ToLower(s) ==
    IF s = "" THEN "" ELSE LowerChar(SubSeq(s, 1, 1)) \o ToLower(SubSeq(s, 2, Len(s)))

resolveCollectionId(idOrAlias) ==
    IF ~Truthy(idOrAlias) THEN idOrAlias
    ELSE LET low == ToLower(Str(idOrAlias))
         IN  IF low = "articles" THEN cfg.articles
             ELSE IF low = "resources" THEN cfg.resources
             ELSE idOrAlias

\* the characters of a string, one by one
Chars(s) == [i \in 1..Len(s) |-> SubSeq(s, i, i)]

\* { ...v }: the own properties of an object; of an array or a string, its
\* elements under their indices; of anything else, none
Spread(v) ==
    LET t == TypeOf(v)
        a == IF t = "string" THEN Chars(v) ELSE v
    IN  CASE t = "object" -> IF v = Null THEN EmptyObject ELSE v
          [] t \in {"array", "string"} ->
               Obj([k \in {ToString(i - 1) : i \in 1..Len(a)} |->
                       a[CHOOSE i \in 1..Len(a) : ToString(i - 1) = k]])
          [] OTHER -> EmptyObject

\* src = body || {}; src.fieldData, if it is an object, spread; otherwise the
\* entries of src other than fieldData
toFieldDataShape(body) ==
    LET src == IF Truthy(body) THEN body ELSE EmptyObject
        fieldData == Prop(src, "fieldData")
        entries == Spread(src)
    IN  IF Truthy(fieldData) /\ TypeOf(fieldData) \in {"object", "array"}
        THEN Spread(fieldData)
        ELSE Obj([k \in Keys(entries) \ {"fieldData"} |-> entries[k]])

\* src?.k !== undefined
Given(src, k) == TypeOf(Prop(src, k)) # "undefined"

\* a normaliser that asks the input's isDraft / isArchived first
normalizeDraftArchiveTopFirst(fd, src) ==
    LET d == IF Given(src, "isDraft") THEN Truthy(src.isDraft)
             ELSE IF Given(fd, "_draft") THEN fd._draft
             ELSE IF Given(src, "_draft") THEN Truthy(src._draft) ELSE FALSE
        a == IF Given(src, "isArchived") THEN Truthy(src.isArchived)
             ELSE IF Given(fd, "_archived") THEN fd._archived
             ELSE IF Given(src, "_archived") THEN Truthy(src._archived) ELSE FALSE
    IN  [k \in Keys(fd) \cup {"_draft", "_archived"} |->
            IF k = "_draft" THEN d ELSE IF k = "_archived" THEN a ELSE fd[k]]

\* out._draft === undefined ? (src?.isDraft !== undefined ? !!src.isDraft : ...) : kept
normalizeDraftArchive(fd, src) ==
    LET d == IF Given(fd, "_draft") THEN fd._draft
             ELSE IF Given(src, "isDraft") THEN Truthy(src.isDraft)
             ELSE IF Given(src, "_draft") THEN Truthy(src._draft) ELSE FALSE
        a == IF Given(fd, "_archived") THEN fd._archived
             ELSE IF Given(src, "isArchived") THEN Truthy(src.isArchived)
             ELSE IF Given(src, "_archived") THEN Truthy(src._archived) ELSE FALSE
    IN  [k \in Keys(fd) \cup {"_draft", "_archived"} |->
            IF k = "_draft" THEN d ELSE IF k = "_archived" THEN a ELSE fd[k]]

Mutating(method) == method \in {"POST", "PUT", "PATCH", "DELETE"}

\* assertMutationAllowed: Null when it returns, the HttpError when it throws
assertMutationAllowed(r) ==
    IF ~Mutating(r.method) THEN Null
    ELSE IF cfg.allowMutations # "true"
    THEN HttpError(403, "Mutations disabled by server", NoDetails)
    ELSE IF cfg.requireHeader = "true" /\ ToLower(r.destructive) \notin {"true", "yes", "1"}
    THEN HttpError(403, "Missing x-allow-destructive header for mutating request", NoDetails)
    ELSE Null

\* the error-handling middleware: res.status(status).json({status:'error', message, details})
ErrorResponse(e) ==
    LET details == IF e.http THEN e.details ELSE Or(e.details, NoDetails)
        said == [status |-> "error", message |-> Or(e.message, "Internal Server Error")]
    IN  [written |-> TRUE, status |-> IF e.status = 0 THEN 500 ELSE e.status,
         body |-> IF TypeOf(details) = "object" /\ details = NoDetails THEN said
                  ELSE said @@ [details |-> details]]

JsonResponse(status, body) == [written |-> TRUE, status |-> status, body |-> body]

\* { status: e.status || 500, message: e.message, details: e.details }
Caught(e) ==
    [status |-> IF e.status = 0 THEN 500 ELSE e.status, message |-> e.message,
     details |-> e.details]

------------------------------------------------------------------------------
(* Inputs: environments, requests, upstream data *)

Configs ==
    [apiKey : BOOLEAN,
     siteId : {Undef, "siteEnv"},
     articles : {Undef, "colA"},
     resources : {Undef, "colR"},
     allowMutations : {"true", "false"},
     requireHeader : {"true", "false"}]

\* bodies of item create / update requests (req.body)
Bodies ==
    {EmptyObject,
     [name |-> "n", slug |-> "s"],
     [name |-> "n", isDraft |-> TRUE, _archived |-> TRUE],
     [fieldData |-> [name |-> "n"], isDraft |-> TRUE],
     [fieldData |-> [name |-> "n", _draft |-> FALSE], isDraft |-> TRUE, isArchived |-> TRUE],
     [fieldData |-> [name |-> "n"], _draft |-> TRUE, _archived |-> TRUE],
     [fieldData |-> [name |-> "n", _archived |-> TRUE], isArchived |-> FALSE, _draft |-> TRUE],
     [name |-> "n", slug |-> "s", isDraft |-> "yes", isArchived |-> ""],
     [fieldData |-> "x", name |-> "n", slug |-> "s", _draft |-> 1, isArchived |-> Null]}

BaseReq ==
    [route |-> "none", method |-> "GET", idOrAlias |-> Undef, itemId |-> Undef,
     query |-> NoQuery, destructive |-> "", body |-> EmptyObject,
     full |-> FALSE, siteId |-> Undef, doSmoke |-> FALSE, publish |-> FALSE, now |-> 0]

With(r, f) == [k \in DOMAIN r |-> IF k \in DOMAIN f THEN f[k] ELSE r[k]]

Aliases == {"Articles", "colX"}
Destructive == {"", "YES", "no"}

CreateRequests ==
    {With(BaseReq, [route |-> "createItem", method |-> "POST", idOrAlias |-> a,
                    destructive |-> d, body |-> b]) :
        a \in Aliases, d \in Destructive, b \in Bodies}

UpdateRequests ==
    {With(BaseReq, [route |-> "updateItem", method |-> "PATCH", idOrAlias |-> a,
                    itemId |-> "it9", destructive |-> d, body |-> b]) :
        a \in Aliases, d \in Destructive, b \in Bodies}

ListQueries ==
    {[all |-> "true"], [all |-> "false", limit |-> 500], [limit |-> 10, offset |-> 20], NoQuery}

ListRequests ==
    {With(BaseReq, [route |-> "listItems", idOrAlias |-> a, query |-> q]) :
        a \in Aliases, q \in ListQueries}

\* replies to an item create / update: the item under one of several identifier names
CreatedBodies ==
    {[id |-> "it1", _id |-> "it2"],
     [item |-> [_id |-> "it3", id |-> "it4"]],
     [item |-> [id |-> "it4"]],
     [itemId |-> "it5"],
     [isDraft |-> TRUE]}

WriteReplies == {HttpReply(200, b) : b \in CreatedBodies} \cup ErrReplies

\* the items a page at this offset holds: the item numbers offset+1 .. offset+n
Page(offset, n) == [i \in 1..n |-> offset + i]
PageLens == {0, 37, 100, 101}

\* a list reply is { items: [...] }, a bare array, or something else
PageReplies(offset) ==
    {HttpReply(200, [items |-> Page(offset, n)]) : n \in PageLens}
    \cup {HttpReply(200, [array |-> Page(offset, 37)]), HttpReply(200, [total |-> 0])}
    \cup ErrReplies

------------------------------------------------------------------------------
(* listAllItems *)

\* Array.isArray(page?.items) ? page.items : (Array.isArray(page) ? page : [])
PageArr(page) ==
    IF IsArray(Prop(page, "items")) THEN page.items
    ELSE IF IsArray(page) THEN page
    ELSE IF IsArray(Prop(page, "array")) THEN page.array ELSE <<>>

NewFrame(cid, pageSize) ==
    [cid |-> cid, pageSize |-> pageSize, items |-> <<>>, offset |-> 0, pages |-> 0,
     state |-> "loop"]
NoFrame == NewFrame(Undef, 0)

ListCall(f, up) ==
    wf("GET", <<"collections", Str(f.cid), "items">>,
       [offset |-> f.offset, limit |-> f.pageSize], NoBody, up)

\* a loop that stops on an empty page only
listAllItemsUntilEmpty(f, up) ==
    LET r == ListCall(f, up)
        arr == PageArr(r.ret.data)
    IN  IF ~r.ret.ok
        THEN [f EXCEPT !.state = "thrown", !.pages = @ + 1]
        ELSE [f EXCEPT !.items = @ \o arr, !.pages = @ + 1,
                       !.state = IF Len(arr) = 0 THEN "returned" ELSE "loop",
                       !.offset = IF Len(arr) = 0 THEN @ ELSE @ + f.pageSize]

\* a loop with a cap of two pages
listAllItemsCapped(f, up) ==
    LET r == ListCall(f, up)
        arr == PageArr(r.ret.data)
        last == Len(arr) < f.pageSize \/ f.pages + 1 >= 2
    IN  IF ~r.ret.ok
        THEN [f EXCEPT !.state = "thrown", !.pages = @ + 1]
        ELSE [f EXCEPT !.items = @ \o arr, !.pages = @ + 1,
                       !.state = IF last THEN "returned" ELSE "loop",
                       !.offset = IF last THEN @ ELSE @ + f.pageSize]

\* one iteration of the while (true) loop, the upstream answering up
listAllItems(f, up) ==
    LET r == ListCall(f, up)
        arr == PageArr(r.ret.data)
    IN  IF ~r.ret.ok
        THEN [f EXCEPT !.state = "thrown", !.pages = @ + 1]
        ELSE [f EXCEPT !.items = @ \o arr, !.pages = @ + 1,
                       !.state = IF Len(arr) < f.pageSize THEN "returned" ELSE "loop",
                       !.offset = IF Len(arr) < f.pageSize THEN @ ELSE @ + f.pageSize]

------------------------------------------------------------------------------
(* Item routes *)

AuditIdle ==
    UNCHANGED <<collections, ci, report, smoke, createdItemId>>

\* a writer that wraps the values under the alternate container key
WriteBodyFields(b) ==
    LET fd == normalizeDraftArchive(toFieldDataShape(b), b)
    IN  [fields |-> fd, isDraft |-> fd._draft, isArchived |-> fd._archived]

WriteBody(b) ==
    LET fd == normalizeDraftArchive(toFieldDataShape(b), b)
    IN  [fieldData |-> fd, isDraft |-> fd._draft, isArchived |-> fd._archived]

\* app.post('/collections/:idOrAlias/items')
ItemCreate ==
    /\ pc = "start" /\ req.route = "createItem"
    /\ LET g == assertMutationAllowed(req)
           cid == resolveCollectionId(req.idOrAlias)
       IN  IF g # Null
           THEN /\ res' = ErrorResponse(g)
                /\ UNCHANGED <<calls, wfRet>>
           ELSE \E up \in WriteReplies :
                  LET r == wf("POST", <<"collections", cid, "items">>, NoQuery,
                              WriteBody(req.body), up)
                  IN  /\ Invoke(r)
                      /\ res' = IF r.ret.ok
                                THEN JsonResponse(201, [status |-> "ok", collectionId |-> cid,
                                                        created |-> r.ret.data])
                                ELSE ErrorResponse(r.ret.error)
    /\ pc' = "done"
    /\ AsideIdle /\ UNCHANGED <<cfg, req, la>> /\ AuditIdle

\* app.patch('/collections/:idOrAlias/items/:itemId')
ItemUpdate ==
    /\ pc = "start" /\ req.route = "updateItem"
    /\ LET g == assertMutationAllowed(req)
           cid == resolveCollectionId(req.idOrAlias)
       IN  IF g # Null
           THEN /\ res' = ErrorResponse(g)
                /\ UNCHANGED <<calls, wfRet>>
           ELSE \E up \in WriteReplies :
                  LET r == wf("PATCH", <<"collections", cid, "items", req.itemId>>, NoQuery,
                              WriteBody(req.body), up)
                  IN  /\ Invoke(r)
                      /\ res' = IF r.ret.ok
                                THEN JsonResponse(200, [status |-> "ok", collectionId |-> cid,
                                                        itemId |-> req.itemId,
                                                        updated |-> r.ret.data])
                                ELSE ErrorResponse(r.ret.error)
    /\ pc' = "done"
    /\ AsideIdle /\ UNCHANGED <<cfg, req, la>> /\ AuditIdle

Min(a, b) == IF a < b THEN a ELSE b

\* app.get('/collections/:idOrAlias/items'): all=true enters listAllItems,
\* anything else fetches one page
ItemsList ==
    /\ pc = "start" /\ req.route = "listItems"
    /\ LET cid == resolveCollectionId(req.idOrAlias)
           l == Min(IF Has(req.query, "limit") THEN req.query.limit ELSE 100, 100)
           o == IF Has(req.query, "offset") THEN req.query.offset ELSE 0
       IN  IF Get(req.query, "all") = "true"
           THEN /\ la' = NewFrame(cid, DefaultPageSize)
                /\ pc' = "listing"
                /\ UNCHANGED <<calls, wfRet, res>>
           ELSE \E up \in PageReplies(o) :
                  LET r == wf("GET", <<"collections", cid, "items">>,
                              [limit |-> l, offset |-> o], NoBody, up)
                  IN  /\ Invoke(r)
                      /\ res' = IF r.ret.ok
                                THEN JsonResponse(200, [status |-> "ok", collectionId |-> cid,
                                                        count |-> Len(PageArr(r.ret.data)),
                                                        items |-> PageArr(r.ret.data)])
                                ELSE ErrorResponse(r.ret.error)
                      /\ pc' = "done"
                      /\ UNCHANGED la
    /\ AsideIdle /\ UNCHANGED <<cfg, req>> /\ AuditIdle

\* one iteration of listAllItems inside the items route; the response is written
\* when the loop returns or throws
ListFetchPage ==
    /\ pc = "listing" /\ req.route = "listItems"
    /\ la.pages < MaxPages
    /\ \E up \in PageReplies(la.offset) :
         LET f == listAllItems(la, up)
         IN  /\ Invoke(ListCall(la, up))
             /\ la' = f
             /\ pc' = IF f.state = "loop" THEN "listing" ELSE "done"
             /\ res' = CASE f.state = "returned" ->
                              JsonResponse(200, [status |-> "ok", collectionId |-> f.cid,
                                                 total |-> Len(f.items), items |-> f.items])
                         [] f.state = "thrown" -> ErrorResponse(ListCall(la, up).ret.error)
                         [] OTHER -> res
    /\ AsideIdle /\ UNCHANGED <<cfg, req>> /\ AuditIdle

\* requests to the two routes that read one thing
GetRequests ==
    {With(BaseReq, [route |-> "getItem", idOrAlias |-> a, itemId |-> "it9"]) : a \in Aliases}
    \cup {With(BaseReq, [route |-> "getCollection", idOrAlias |-> a]) : a \in Aliases}

GetReplies == {HttpReply(200, [id |-> "x1"])} \cup ErrReplies

\* app.get('/collections/:idOrAlias')
CollectionGet ==
    /\ pc = "start" /\ req.route = "getCollection"
    /\ \E up \in GetReplies :
         LET cid == resolveCollectionId(req.idOrAlias)
             r == wf("GET", <<"collections", cid>>, NoQuery, NoBody, up)
         IN  /\ Invoke(r)
             /\ res' = IF r.ret.ok
                       THEN JsonResponse(200, [status |-> "ok", collection |-> r.ret.data])
                       ELSE ErrorResponse(r.ret.error)
    /\ pc' = "done"
    /\ AsideIdle /\ UNCHANGED <<cfg, req, la>> /\ AuditIdle

\* app.get('/collections/:idOrAlias/items/:itemId')
ItemGet ==
    /\ pc = "start" /\ req.route = "getItem"
    /\ \E up \in GetReplies :
         LET cid == resolveCollectionId(req.idOrAlias)
             r == wf("GET", <<"collections", cid, "items", req.itemId>>, NoQuery, NoBody, up)
         IN  /\ Invoke(r)
             /\ res' = IF r.ret.ok
                       THEN JsonResponse(200, [status |-> "ok", collectionId |-> cid,
                                               item |-> r.ret.data])
                       ELSE ErrorResponse(r.ret.error)
    /\ pc' = "done"
    /\ AsideIdle /\ UNCHANGED <<cfg, req, la>> /\ AuditIdle

------------------------------------------------------------------------------
(* The item routes as a system *)

Init ==
    /\ cfg \in Configs
    /\ req \in CreateRequests \cup UpdateRequests \cup ListRequests \cup GetRequests
    /\ pc = "start"
    /\ calls = <<>> /\ wfRet = <<>>
    /\ la = NoFrame
    /\ collections = <<>> /\ ci = 0 /\ report = Null /\ smoke = Null
    /\ createdItemId = Undef
    /\ res = NoRes
    /\ AsideInit

Next == ItemCreate \/ ItemUpdate \/ ItemsList \/ ListFetchPage \/ CollectionGet \/ ItemGet

Spec == Init /\ [][Next]_vars

------------------------------------------------------------------------------
(* GET /audit: inputs *)

\* the environments an audit is run in: REQUIRE_DESTRUCTIVE_HEADER at its default,
\* and ALLOW_MUTATIONS switched off in the fully configured environments only
AuditConfigs ==
    {c \in Configs :
        /\ c.requireHeader = "true"
        /\ c.allowMutations = "false" =>
              c.apiKey /\ Truthy(c.siteId) /\ Truthy(c.articles)}

\* req.query of an audit request
AuditQueries ==
    {NoQuery,
     [full |-> "true"],
     [full |-> "true", siteId |-> "siteQ"],
     [doSmoke |-> "false"],
     [full |-> "true", siteId |-> "siteQ", doSmoke |-> "false"],
     [publish |-> "true"],
     [full |-> "true", siteId |-> "siteQ", publish |-> "true"],
     [full |-> "false", doSmoke |-> "true", publish |-> "false"]}

\* Date.now() when the smoke test starts
Nows == {1700}

AuditRequests ==
    {With(BaseReq, [route |-> "audit", query |-> q, now |-> t]) :
        q \in AuditQueries, t \in Nows}
    \cup {With(BaseReq, [route |-> "audit", query |-> NoQuery, now |-> t,
                         destructive |-> "YES"]) : t \in Nows}

\* failures the upstream answers with during an audit
AuditErrReplies == {ReplyValidation, ReplyServerError}

DiscoveredLists ==
    {<<>>,
     <<[id |-> "col1", name |-> "One"]>>,
     <<[_id |-> "col1", displayName |-> "One"], [collectionId |-> "col2", slug |-> "two"]>>}

CollectionReplies ==
    {HttpReply(200, [collections |-> l]) : l \in DiscoveredLists}
    \cup {HttpReply(200, [array |-> <<[id |-> "col1", name |-> "One"]>>]),
          HttpReply(200, [total |-> 0])}
    \cup AuditErrReplies

AuditPageLens == {37, 100}
\* n items from the given offset on, each with an id, a slug and a name of its
\* own (its number), none a draft or archived
ItemPage(offset, n) ==
    [i \in 1..n |-> [id |-> offset + i, slug |-> offset + i, name |-> offset + i,
                     isDraft |-> FALSE, isArchived |-> FALSE]]
\* a page of items, a page that holds a null where an item is expected, or a
\* failure
AuditPageReplies(offset) ==
    {HttpReply(200, [items |-> ItemPage(offset, n)]) : n \in AuditPageLens}
    \cup {HttpReply(200, [items |-> <<Null>>]), ReplyServerError}

SmokeCreateReplies == {HttpReply(200, b) : b \in CreatedBodies} \cup AuditErrReplies
SmokeUpdateReplies == {HttpReply(200, [id |-> "it1"])} \cup AuditErrReplies
SmokePublishReplies == {HttpReply(202, [publishedItemIds |-> <<"it1">>])} \cup AuditErrReplies
SmokeDeleteReplies == {TextReply(204, "")} \cup AuditErrReplies

------------------------------------------------------------------------------
(* GET /audit: discovery and the collection loop *)

Full == Get(req.query, "full") = "true"
\* req.query.siteId || WEBFLOW_SITE_ID
AuditSiteId == Or(Get(req.query, "siteId"), cfg.siteId)
\* an audit that runs the smoke test whatever the query says
DoSmokeAlways == TRUE

\* (req.query.doSmoke ?? 'true') === 'true'
DoSmoke == (IF Has(req.query, "doSmoke") THEN req.query.doSmoke ELSE "true") = "true"
\* (req.query.publish ?? 'false') === 'true'
Publish == (IF Has(req.query, "publish") THEN req.query.publish ELSE "false") = "true"

\* Array.isArray(resp?.collections) ? resp.collections : (Array.isArray(resp) ? resp : [])
CollectionsArr(resp) ==
    IF IsArray(Prop(resp, "collections")) THEN resp.collections
    ELSE IF IsArray(resp) THEN resp
    ELSE IF IsArray(Prop(resp, "array")) THEN resp.array ELSE <<>>

\* a discovery that, after a 400, asks once more through the list of collections
\* filtered by site
listCollectionsWithFallback(siteId, up) ==
    LET r == wf("GET", <<"sites", siteId, "collections">>, NoQuery, NoBody, up)
    IN  IF ~r.ret.ok /\ r.ret.error.status = 400 /\ r.fetches # <<>>
        THEN [r EXCEPT !.fetches = @ \o <<Fetch("GET", <<"collections">>,
                                               [siteId |-> siteId], NoBody, up)>>]
        ELSE r

listCollectionsForSite(siteId, up) == wf("GET", <<"sites", siteId, "collections">>, NoQuery, NoBody, up)

EnvCollections ==
    (IF Truthy(cfg.articles) THEN <<[id |-> cfg.articles, name |-> "Articles (env)"]>> ELSE <<>>)
    \o (IF Truthy(cfg.resources) THEN <<[id |-> cfg.resources, name |-> "Resources (env)"]>> ELSE <<>>)

NewReport ==
    [status |-> "ok", mode |-> IF Full THEN "full" ELSE "safe",
     siteId |-> Or(AuditSiteId, Null),
     totals |-> [collections |-> 0, items |-> 0],
     collections |-> <<>>, smokeTest |-> Null]

\* c.id || c._id || c.collectionId || c; reading c.id of null or undefined throws
CollectionId(c) ==
    IF Nullish(c) THEN Thrown(TypeError(BadRead(c, "id")))
    ELSE IF TypeOf(c) # "object" THEN c
    ELSE Or(Get(c, "id"), Or(Get(c, "_id"), Or(Get(c, "collectionId"), c)))
\* c.name || c.displayName || c.slug || cid; the line before it has thrown
\* when c is null or undefined
CollectionName(c) ==
    IF Nullish(c) THEN Thrown(TypeError(BadRead(c, "id")))
    ELSE IF TypeOf(c) # "object" THEN c
    ELSE Or(Get(c, "name"), Or(Get(c, "displayName"), Or(Get(c, "slug"), CollectionId(c))))

\* RESOURCES_COLLECTION_ID || ARTICLES_COLLECTION_ID || report.collections[0]?.id
TargetCid(rep) ==
    Or(cfg.resources,
       Or(cfg.articles,
          IF Len(rep.collections) > 0 THEN rep.collections[1].id ELSE Undef))

\* a catch block that records the error and still reports success
SmokeFailedButOk(sm, e) == sm @@ [ok |-> TRUE, error |-> Caught(e)]

\* the smoke record when the sequence ends in the catch block
SmokeFailed(sm, e) == sm @@ [ok |-> FALSE, error |-> Caught(e)]

\* report.smokeTest = smoke; res.json(report)
Finish(rep, sm) ==
    /\ smoke' = sm
    /\ report' = [rep EXCEPT !.smokeTest = sm]
    /\ res' = JsonResponse(200, [rep EXCEPT !.smokeTest = sm])
    /\ pc' = "done"

\* what the handler does once the collection loop is over, up to its next await
AfterCollections(rep) ==
    IF ~DoSmoke
    THEN /\ report' = rep /\ smoke' = smoke
         /\ res' = JsonResponse(200, rep) /\ pc' = "done"
    ELSE IF assertMutationAllowed(req) # Null
    THEN /\ report' = rep /\ smoke' = smoke
         /\ res' = ErrorResponse(assertMutationAllowed(req)) /\ pc' = "done"
    ELSE IF ~Truthy(TargetCid(rep))
    THEN Finish(rep, SmokeFailed([collectionId |-> TargetCid(rep)],
                     HttpError(400, "No collection id available for smoke test", NoDetails)))
    ELSE /\ report' = rep
         /\ smoke' = [collectionId |-> TargetCid(rep)]
         /\ res' = res /\ pc' = "smokeCreate"

\* a loop that walks the collections from the last to the first
LoopToReversed(rep, colls, k) ==
    /\ collections' = colls
    /\ ci' = k
    /\ IF k <= Len(colls)
       THEN /\ la' = NewFrame(CollectionId(colls[Len(colls) + 1 - k]), DefaultPageSize)
            /\ report' = rep /\ pc' = "fetch"
            /\ UNCHANGED <<smoke, res>>
       ELSE /\ la' = NoFrame
            /\ AfterCollections(rep)

\* the for (const c of collections) loop reaching its k-th collection, or its end
LoopTo(rep, colls, k) ==
    /\ collections' = colls
    /\ ci' = k
    /\ IF k <= Len(colls) /\ Nullish(colls[k])
       THEN /\ la' = NoFrame
            /\ report' = rep /\ smoke' = smoke
            /\ res' = ErrorResponse(CollectionId(colls[k]).error) /\ pc' = "done"
       ELSE IF k <= Len(colls)
       THEN /\ la' = NewFrame(CollectionId(colls[k]), DefaultPageSize)
            /\ report' = rep /\ pc' = "fetch"
            /\ UNCHANGED <<smoke, res>>
       ELSE /\ la' = NoFrame
            /\ AfterCollections(rep)

\* a catch block that swallows the failure of the discovery without a trace
DiscoveryCaughtSilently(e) == NewReport

\* the report after the catch block of the discovery
DiscoveryCaught(e) == NewReport @@ [collectionsFetchError |-> Caught(e)]

\* from the start of the handler to its first await after discovery
AuditGather ==
    /\ pc = "start" /\ req.route = "audit"
    /\ IF Full /\ Truthy(AuditSiteId)
       THEN \E up \in CollectionReplies :
              LET r == listCollectionsForSite(AuditSiteId, up)
                  colls == IF r.ret.ok THEN CollectionsArr(r.ret.data) ELSE <<>>
                  rep == IF r.ret.ok THEN NewReport ELSE DiscoveryCaught(r.ret.error)
              IN  /\ Invoke(r)
                  /\ LoopTo([rep EXCEPT !.totals.collections = Len(colls)], colls, 1)
       ELSE LET colls == IF Full THEN <<>> ELSE EnvCollections
                rep == IF Full
                       THEN DiscoveryCaught(HttpError(400,
                                "Missing siteId (and WEBFLOW_SITE_ID not set)", NoDetails))
                       ELSE NewReport
            IN  /\ UNCHANGED <<calls, wfRet>>
                /\ LoopTo([rep EXCEPT !.totals.collections = Len(colls)], colls, 1)
    /\ AsideIdle /\ UNCHANGED <<cfg, req, createdItemId>>

(* GET /audit: the classification of a collection's items.  Character strings *)
(* are sequences of characters here, so that slicing and concatenation are    *)
(* computed; <<>> is the empty string.                                        *)

\* the longest item list the classification is applied to
MaxItems == 5

\* the one element of a set of one element
The(S) == CHOOSE x \in S : TRUE

\* ToBoolean of a value of an item: the empty character string is falsy
Filled(v) == v \notin [Falsy EXCEPT !.array = {<<>>}][TypeOf(v)]
\* a || b
FilledOr(a, b) == IF Filled(a) THEN a ELSE b
\* String(v), as characters
StringOf(v) == IF IsArray(v) THEN v ELSE Chars(Str(v))

\* what Map.has, Map.get and Array.includes compare (SameValueZero) for the
\* value v read from the n-th item of a list: a primitive is known by its
\* value, an object is that item's object and equal to no other item's
Identity(v, n) ==
    IF TypeOf(v) = "object" /\ v # Null THEN "@" \o ToString(n) ELSE ToString(v)

\* it.id || it._id || it.itemId || it['id']; reading it.id of null or undefined throws
ItemId(it) ==
    IF Nullish(it) THEN Thrown(TypeError(BadRead(it, "id")))
    ELSE FilledOr(Prop(it, "id"),
            FilledOr(Prop(it, "_id"), FilledOr(Prop(it, "itemId"), Prop(it, "id"))))

\* it?.fieldData
FieldData(it) == Prop(it, "fieldData")

\* it?.slug ?? it?.fieldData?.slug
ItemSlug(it) == Coalesce(Prop(it, "slug"), Prop(FieldData(it), "slug"))

\* it?.name ?? it?.fieldData?.name
ItemName(it) == Coalesce(Prop(it, "name"), Prop(FieldData(it), "name"))

\* it?.isDraft ?? it?.fieldData?._draft ?? it?._draft ?? false
IsDraft(it) ==
    Coalesce(Prop(it, "isDraft"),
       Coalesce(Prop(FieldData(it), "_draft"), Coalesce(Prop(it, "_draft"), FALSE)))

\* it?.isArchived ?? it?.fieldData?._archived ?? it?._archived ?? false
IsArchived(it) ==
    Coalesce(Prop(it, "isArchived"),
       Coalesce(Prop(FieldData(it), "_archived"), Coalesce(Prop(it, "_archived"), FALSE)))

\* the ids of a list of items, in order
IdsOf(l) == [i \in 1..Len(l) |-> ItemId(l[i])]

\* const seenSlugs = new Map(): the keys it has and its entries in insertion
\* order
NewMap == [keys |-> {}, entries |-> <<>>]

\* if (!seenSlugs.has(slug)) seenSlugs.set(slug, []); seenSlugs.get(slug).push(id),
\* k what the Map compares of the slug; an entry keeps, beside the ids pushed,
\* what includes() will compare of each of them
Seen(m, slug, k, id, idKey) ==
    IF k \in m.keys
    THEN [m EXCEPT !.entries =
             [i \in 1..Len(@) |->
                 IF @[i].key = k
                 THEN [@[i] EXCEPT !.itemIds = Append(@, id), !.idKeys = Append(@, idKey)]
                 ELSE @[i]]]
    ELSE [keys |-> m.keys \cup {k},
          entries |-> Append(m.entries, [key |-> k, slug |-> slug, itemIds |-> <<id>>,
                                         idKeys |-> <<idKey>>])]

\* the four lists and the Map before the first loop
NewScan ==
    [missingSlugs |-> <<>>, missingNames |-> <<>>, drafts |-> <<>>, archived |-> <<>>,
     seenSlugs |-> NewMap]

\* one round of the first loop, for the n-th item of the list
FirstLoopRound(sc, it, n) ==
    The({[missingSlugs |-> IF Filled(slug) THEN sc.missingSlugs
                           ELSE Append(sc.missingSlugs, id),
          missingNames |-> IF Filled(name) THEN sc.missingNames
                           ELSE Append(sc.missingNames, id),
          drafts |-> IF Filled(draft) THEN Append(sc.drafts, id) ELSE sc.drafts,
          archived |-> IF Filled(archived) THEN Append(sc.archived, id) ELSE sc.archived,
          seenSlugs |-> IF Filled(slug)
                        THEN Seen(sc.seenSlugs, slug, Identity(slug, n), id, Identity(id, n))
                        ELSE sc.seenSlugs] :
            id \in {ItemId(it)}, slug \in {ItemSlug(it)}, name \in {ItemName(it)},
            draft \in {IsDraft(it)}, archived \in {IsArchived(it)}})

\* the first loop over the items lo..hi, in order (the lower half of them, then
\* the upper half)
RECURSIVE FirstLoop(_, _, _, _)
FirstLoop(sc, items, lo, hi) ==
    IF lo > hi THEN sc
    ELSE IF lo = hi THEN FirstLoopRound(sc, items[lo], lo)
    ELSE The({FirstLoop(half, items, (lo + hi) \div 2 + 1, hi) :
                 half \in {FirstLoop(sc, items, lo, (lo + hi) \div 2)}})

\* seenSlugs after the first n items
SeenSlugs(items, n) == FirstLoop(NewScan, items, 1, n).seenSlugs

\* for (const [slug, ids] of seenSlugs.entries()) if (ids.length > 1) dupSlugs.push(...):
\* the entries that become groups
DupGroups(m) == SelectSeq(m.entries, LAMBDA e : Len(e.itemIds) > 1)

\* dupSlugs as reported: { slug, itemIds }
Reported(groups) ==
    [i \in 1..Len(groups) |-> [slug |-> groups[i].slug, itemIds |-> groups[i].itemIds]]
DupSlugs(items) ==
    The({Reported(DupGroups(m)) : m \in {SeenSlugs(items, Len(items))}})

\* takeLast = (s, n) => String(s).slice(-n)
TakeLast(s, n) ==
    LET str == StringOf(s)
    IN  SubSeq(str, IF Len(str) > n THEN Len(str) - n + 1 ELSE 1, Len(str))

\* dupSlugs.find(d => d.itemIds.includes(id)), id the id of the n-th item
InDupGroup(groups, id, n) ==
    \E g \in 1..Len(groups) :
       \E j \in 1..Len(groups[g].idKeys) : groups[g].idKeys[j] = Identity(id, n)

StrAuto == <<"a", "u", "t", "o", "-">>
StrMissingName == <<"M", "i", "s", "s", "i", "n", "g", " ", "n", "a", "m", "e", " ">>

\* the changes object of the n-th item (<<>> while it has no property)
Changes(it, n, groups) ==
    The({(IF ~Filled(slug) THEN [slug |-> StrAuto \o TakeLast(id, 6)]
          ELSE IF InDupGroup(groups, id, n)
          THEN [slug |-> StringOf(slug) \o <<"-">> \o TakeLast(id, 6)]
          ELSE <<>>)
         @@ (IF ~Filled(name) THEN [name |-> StrMissingName \o TakeLast(id, 6)]
             ELSE <<>>) :
            id \in {ItemId(it)}, slug \in {ItemSlug(it)}, name \in {ItemName(it)}})

\* _draft: it?.fieldData?._draft ?? false, _archived: it?.fieldData?._archived ?? false
PatchFlags(it) ==
    [_draft |-> Coalesce(Prop(FieldData(it), "_draft"), FALSE),
     _archived |-> Coalesce(Prop(FieldData(it), "_archived"), FALSE)]

\* { itemId: id, changes, patch: { fieldData: { ...changes, _draft, _archived } } }
Suggestion(it, changes) ==
    [itemId |-> ItemId(it), changes |-> changes,
     patch |-> [fieldData |-> changes @@ PatchFlags(it)]]

\* the second loop over the first n items: if (needs) patchSuggestions.push(...),
\* one suggestion per item whose changes object was given a property, in the
\* order of the items
PatchSuggestions(items, n, groups) ==
    The({[k \in 1..Len(changed) |-> Suggestion(items[changed[k].n], changed[k].changes)] :
            changed \in {SelectSeq([i \in 1..n |->
                                       [n |-> i, changes |-> Changes(items[i], i, groups)]],
                                   LAMBDA c : DOMAIN c.changes # {})}})

\* the four lists after the first loop
MissingSlugs(items) == FirstLoop(NewScan, items, 1, Len(items)).missingSlugs
MissingNames(items) == FirstLoop(NewScan, items, 1, Len(items)).missingNames
Drafts(items) == FirstLoop(NewScan, items, 1, Len(items)).drafts
Archived(items) == FirstLoop(NewScan, items, 1, Len(items)).archived

\* an item of the list is null: the first loop throws at it.id
ScanThrows(items) == \E i \in 1..Len(items) : Nullish(items[i])
\* the TypeError of the first such item
ScanError(items) ==
    ItemId(items[CHOOSE i \in 1..Len(items) :
                    Nullish(items[i]) /\ \A j \in 1..(i - 1) : ~Nullish(items[j])]).error

\* { id: cid, name, error: colError, counts: {...}, duplicateSlugs: dupSlugs, patchSuggestions },
\* sc what the first loop left and groups the entries that became dupSlugs
EntryOf(c, items, colError, sc, groups) ==
    [id |-> CollectionId(c), name |-> CollectionName(c), error |-> colError,
     counts |-> [items |-> Len(items),
                 missingSlugs |-> Len(sc.missingSlugs),
                 missingNames |-> Len(sc.missingNames),
                 drafts |-> Len(sc.drafts),
                 archived |-> Len(sc.archived),
                 duplicateSlugGroups |-> Len(groups)],
     duplicateSlugs |-> Reported(groups),
     patchSuggestions |-> PatchSuggestions(items, Len(items), groups)]

\* the two loops over the items of a collection and the entry they give
\* (no item of the list is null)
ScanEntry(c, items, colError) ==
    The({The({EntryOf(c, items, colError, sc, g) : g \in {DupGroups(sc.seenSlugs)}}) :
            sc \in {FirstLoop(NewScan, items, 1, Len(items))}})

\* the items the handler has after the try block: [] when listAllItems threw
FetchedItems(f) == IF f.state = "returned" THEN f.items ELSE <<>>

\* try { items = await listAllItems(cid) } catch (e) { colError = ... };
\* report.totals.items += items.length; the two loops;
\* report.collections.push(...), for items that hold no null
AddCollection(rep, c, f, e) ==
    The({[rep EXCEPT !.totals.items = @ + Len(items),
                     !.collections =
                        Append(@, ScanEntry(c, items,
                                     IF f.state = "thrown" THEN Caught(e) ELSE Null))] :
            items \in {FetchedItems(f)}})

\* the first loop reads it.id of a null item: the TypeError leaves the handler
\* after the total was added and before the push
ScanAborts(rep, items) ==
    /\ report' = [rep EXCEPT !.totals.items = @ + Len(items)]
    /\ res' = ErrorResponse(ScanError(items))
    /\ pc' = "done"

\* one page of the current collection; when listAllItems returns or throws the
\* collection is classified and reported and the loop moves on
AuditFetchPage ==
    /\ pc = "fetch" /\ req.route = "audit"
    /\ la.pages < MaxPages
    /\ \E up \in AuditPageReplies(la.offset) :
         \E f \in {listAllItems(la, up)}, r \in {ListCall(la, up)} :
             /\ Invoke(r)
             /\ IF f.state = "loop"
                THEN /\ la' = f
                     /\ UNCHANGED <<pc, collections, ci, report, smoke, res>>
                ELSE IF ScanThrows(FetchedItems(f))
                THEN /\ ScanAborts(report, FetchedItems(f))
                     /\ la' = NoFrame
                     /\ UNCHANGED <<collections, ci, smoke>>
                ELSE \E rep \in {AddCollection(report, collections[ci], f,
                                               IF r.ret.ok THEN Null ELSE r.ret.error)} :
                        LoopTo(rep, collections, ci + 1)
    /\ AsideIdle /\ UNCHANGED <<cfg, req, createdItemId>>

------------------------------------------------------------------------------
(* GET /audit: the smoke test *)

SmokeSlug == <<"mcp-smoke-", req.now>>
SmokeName == <<"MCP Smoke Test ", req.now>>

\* an extraction that looks at _id before id
ExtractItemIdUnderscoreFirst(created) ==
    LET item == Prop(created, "item")
    IN  Or(Prop(created, "_id"),
           Or(Prop(created, "id"),
              Or(Prop(item, "_id"), Or(Prop(item, "id"), Prop(created, "itemId")))))

\* created?.id || created?._id || created?.item?._id || created?.item?.id || created?.itemId
ExtractItemId(created) ==
    LET item == Prop(created, "item")
    IN  Or(Prop(created, "id"),
           Or(Prop(created, "_id"),
              Or(Prop(item, "_id"), Or(Prop(item, "id"), Prop(created, "itemId")))))

SmokeFrame == AsideIdle /\ UNCHANGED <<cfg, req, la, collections, ci>>

SmokeCreate ==
    /\ pc = "smokeCreate" /\ req.route = "audit"
    /\ \E up \in SmokeCreateReplies :
         LET r == wf("POST", <<"collections", Str(smoke.collectionId), "items">>, NoQuery,
                     [fieldData |-> [name |-> SmokeName, slug |-> SmokeSlug,
                                     _draft |-> TRUE, _archived |-> FALSE],
                      isDraft |-> TRUE, isArchived |-> FALSE], up)
         IN  /\ Invoke(r)
             /\ IF r.ret.ok
                THEN /\ createdItemId' = ExtractItemId(r.ret.data)
                     /\ smoke' = smoke @@
                           [created |-> [ok |-> TRUE, itemId |-> ExtractItemId(r.ret.data)]]
                     /\ pc' = "smokeUpdate"
                     /\ UNCHANGED <<report, res>>
                ELSE /\ Finish(report, SmokeFailed(smoke, r.ret.error))
                     /\ UNCHANGED createdItemId
    /\ SmokeFrame

\* an update step whose failure is recorded while the sequence goes on to the delete
SmokeUpdateThenCleanUp ==
    /\ pc = "smokeUpdate" /\ req.route = "audit"
    /\ \E up \in SmokeUpdateReplies :
         LET r == wf("PATCH", <<"collections", Str(smoke.collectionId), "items", createdItemId>>,
                     NoQuery,
                     [fieldData |-> [name |-> SmokeName \o <<" (updated)">>,
                                     _draft |-> TRUE, _archived |-> FALSE],
                      isDraft |-> TRUE, isArchived |-> FALSE], up)
         IN  /\ Invoke(r)
             /\ smoke' = smoke @@ [updated |-> [ok |-> r.ret.ok]]
             /\ pc' = IF Publish THEN "smokePublish" ELSE "smokeDelete"
             /\ UNCHANGED <<report, res>>
    /\ UNCHANGED createdItemId /\ SmokeFrame

SmokeUpdate ==
    /\ pc = "smokeUpdate" /\ req.route = "audit"
    /\ \E up \in SmokeUpdateReplies :
         LET r == wf("PATCH", <<"collections", Str(smoke.collectionId), "items", createdItemId>>,
                     NoQuery,
                     [fieldData |-> [name |-> SmokeName \o <<" (updated)">>,
                                     _draft |-> TRUE, _archived |-> FALSE],
                      isDraft |-> TRUE, isArchived |-> FALSE], up)
         IN  /\ Invoke(r)
             /\ IF r.ret.ok
                THEN /\ smoke' = smoke @@ [updated |-> [ok |-> TRUE]]
                     /\ pc' = IF Publish THEN "smokePublish" ELSE "smokeDelete"
                     /\ UNCHANGED <<report, res>>
                ELSE Finish(report, SmokeFailed(smoke, r.ret.error))
    /\ UNCHANGED createdItemId /\ SmokeFrame

\* publishTo: WEBFLOW_SITE_ID ? [WEBFLOW_SITE_ID] : undefined
PublishBody(itemIds, siteId) ==
    IF Truthy(siteId) THEN [itemIds |-> itemIds, publishTo |-> <<siteId>>]
    ELSE [itemIds |-> itemIds]

\* a publish step whose failure is recorded while the sequence goes on to the delete
SmokePublishNonFatal ==
    /\ pc = "smokePublish" /\ req.route = "audit"
    /\ \E up \in SmokePublishReplies :
         LET r == wf("POST", <<"collections", Str(smoke.collectionId), "items", "publish">>,
                     NoQuery, PublishBody(<<createdItemId>>, cfg.siteId), up)
         IN  /\ Invoke(r)
             /\ smoke' = smoke @@ [published |-> [ok |-> r.ret.ok]]
             /\ pc' = "smokeDelete"
             /\ UNCHANGED <<report, res>>
    /\ UNCHANGED createdItemId /\ SmokeFrame

SmokePublish ==
    /\ pc = "smokePublish" /\ req.route = "audit"
    /\ \E up \in SmokePublishReplies :
         LET r == wf("POST", <<"collections", Str(smoke.collectionId), "items", "publish">>,
                     NoQuery, PublishBody(<<createdItemId>>, cfg.siteId), up)
         IN  /\ Invoke(r)
             /\ IF r.ret.ok
                THEN /\ smoke' = smoke @@ [published |-> [ok |-> TRUE, data |-> r.ret.data]]
                     /\ pc' = "smokeDelete"
                     /\ UNCHANGED <<report, res>>
                ELSE Finish(report, SmokeFailed(smoke, r.ret.error))
    /\ UNCHANGED createdItemId /\ SmokeFrame

SmokeDelete ==
    /\ pc = "smokeDelete" /\ req.route = "audit"
    /\ \E up \in SmokeDeleteReplies :
         LET r == wf("DELETE", <<"collections", Str(smoke.collectionId), "items", createdItemId>>,
                     NoQuery, NoBody, up)
         IN  /\ Invoke(r)
             /\ IF r.ret.ok
                THEN Finish(report, smoke @@ [deleted |-> [ok |-> TRUE], ok |-> TRUE])
                ELSE Finish(report, SmokeFailed(smoke, r.ret.error))
    /\ UNCHANGED createdItemId /\ SmokeFrame

------------------------------------------------------------------------------
(* GET /audit as a system *)

InitAudit ==
    /\ cfg \in AuditConfigs
    /\ req \in AuditRequests
    /\ pc = "start"
    /\ calls = <<>> /\ wfRet = <<>>
    /\ la = NoFrame
    /\ collections = <<>> /\ ci = 0 /\ report = Null /\ smoke = Null
    /\ createdItemId = Undef
    /\ res = NoRes
    /\ AsideInit

NextAudit ==
    \/ AuditGather
    \/ AuditFetchPage
    \/ SmokeCreate
    \/ SmokeUpdate
    \/ SmokePublish
    \/ SmokeDelete

SpecAudit == InitAudit /\ [][NextAudit]_vars

------------------------------------------------------------------------------
(* GET /audit: the item lists the classification is checked on *)

(* the items the upstream holds in a collection: the items of the pool have   *)
(* an identifier of their own under one of the three field names and slugs    *)
(* that are strings; the last one has fields that are null                    *)

Id1 == <<"6", "4", "a", "b", "c", "d", "e", "1">>
Id2 == <<"7", "5", "a", "b", "c", "d", "e", "2">>
Id3 == <<"x", "y", "z">>
Id4 == <<"6", "6", "f", "0", "0", "d">>
Id5 == <<"9", "9", "a", "b", "c", "d", "e", "1">>
Id6 == <<"k", "6">>
Id7 == <<"m", "7", "7", "7", "7", "7", "7", "7">>
Id8 == <<"n", "8", "8">>
SlugA == <<"a">>
SlugB == <<"b">>
SlugC == <<"c">>
NameN == <<"n">>

ItemPool ==
    <<[id |-> Id1, isDraft |-> TRUE, isArchived |-> FALSE,
       fieldData |-> [name |-> NameN, slug |-> SlugA]],
      [id |-> Id2, fieldData |-> [name |-> NameN, slug |-> SlugA,
                                  _draft |-> TRUE, _archived |-> TRUE]],
      [_id |-> Id3, slug |-> SlugA, name |-> NameN, _draft |-> TRUE],
      [id |-> Id4, isDraft |-> TRUE, fieldData |-> [name |-> NameN]],
      [itemId |-> Id5, fieldData |-> [slug |-> SlugB]],
      [id |-> Id6, slug |-> <<>>, isArchived |-> TRUE,
       fieldData |-> [slug |-> SlugC, name |-> <<>>]],
      [id |-> Id7, fieldData |-> [slug |-> SlugC, name |-> NameN]],
      [id |-> Null, _id |-> Id8, slug |-> Null, name |-> Null, isDraft |-> Null,
       isArchived |-> Null, _archived |-> TRUE,
       fieldData |-> [slug |-> SlugB, _draft |-> TRUE, _archived |-> Null]]>>

\* the selections of up to n items of the pool, in any order, none taken twice
RECURSIVE DistinctSelections(_)
DistinctSelections(n) ==
    IF n = 0 THEN {<<>>}
    ELSE LET shorter == DistinctSelections(n - 1)
         IN  shorter \cup
             UNION {{Append(l, k) : k \in (1..Len(ItemPool)) \ {l[i] : i \in 1..Len(l)}} :
                        l \in {x \in shorter : Len(x) = n - 1}}

ItemsOf(l) == [i \in 1..Len(l) |-> ItemPool[l[i]]]

\* lists that hold a null where an item is expected
NullItemLists == {<<Null>>, Append(ItemsOf(<<1>>), Null), <<Null>> \o ItemsOf(<<2, 3>>)}

\* lists whose items have no identifier, one identifier, or slugs and
\* identifiers that are objects
SlugObject == [x |-> 1]
OddItemLists ==
    {<<[slug |-> SlugA, name |-> NameN], [slug |-> SlugA, name |-> NameN],
       [slug |-> SlugB, name |-> NameN]>>,
     <<[slug |-> SlugA, name |-> NameN], [slug |-> SlugB, name |-> NameN]>>,
     <<[id |-> Id1, slug |-> SlugA, name |-> NameN], [id |-> Id1, slug |-> SlugA, name |-> NameN],
       [id |-> Id1, slug |-> SlugB, name |-> NameN]>>,
     <<[id |-> Id1, name |-> NameN, fieldData |-> [slug |-> SlugObject]],
       [id |-> Id2, name |-> NameN, fieldData |-> [slug |-> SlugObject]]>>,
     <<[_id |-> SlugObject, slug |-> SlugA, name |-> NameN],
       [_id |-> SlugObject, slug |-> SlugA, name |-> NameN],
       [_id |-> SlugObject, slug |-> SlugB, name |-> NameN],
       [_id |-> SlugObject, slug |-> SlugObject, name |-> NameN]>>}

ItemLists ==
    {ItemsOf(l) : l \in DistinctSelections(MaxItems)} \cup NullItemLists \cup OddItemLists

\* the body of the collection loop from the classification to the push, for a
\* collection whose items listAllItems has returned
AuditScan ==
    /\ pc = "scan" /\ req.route = "audit"
    /\ la.state = "returned"
    /\ IF ScanThrows(FetchedItems(la))
       THEN ScanAborts(report, FetchedItems(la))
       ELSE /\ report' = AddCollection(report, collections[ci], la, Null)
            /\ res' = res
            /\ pc' = "scanned"
    /\ AsideIdle /\ UNCHANGED <<cfg, req, calls, wfRet, la, collections, ci, smoke, createdItemId>>

InitScan ==
    /\ cfg \in {c \in Configs : c.apiKey /\ c.allowMutations = "true" /\ c.requireHeader = "true"
                                /\ Truthy(c.siteId) /\ Truthy(c.articles) /\ Truthy(c.resources)}
    /\ req = With(BaseReq, [route |-> "audit", query |-> [full |-> "true"]])
    /\ pc = "scan"
    /\ calls = <<>> /\ wfRet = <<>>
    /\ \E l \in ItemLists :
         la = [NewFrame("col1", DefaultPageSize) EXCEPT !.items = l, !.pages = 1,
                                                        !.state = "returned"]
    /\ collections = <<[id |-> "col1", name |-> "One"]>> /\ ci = 1
    /\ report = [status |-> "ok", mode |-> "full", siteId |-> cfg.siteId,
                 totals |-> [collections |-> 1, items |-> 0],
                 collections |-> <<>>, smokeTest |-> Null]
    /\ smoke = Null
    /\ createdItemId = Undef
    /\ res = NoRes
    /\ AsideInit

NextScan == AuditScan

SpecScan == InitScan /\ [][NextScan]_vars

------------------------------------------------------------------------------
(* The request pipeline: the token gate in front of every route, then the    *)
(* route's handler.  Tokens are sequences of characters.  Besides the routes *)
(* of src/index.js the explicit routes of src/unnamed/part_000 are served.   *)

Tok == <<"t", "o", "k">>

\* a comparison that stops at the end of the shorter string
safeComparePrefix(a, b) ==
    \A i \in 1..Min(Len(a), Len(b)) : a[i] = b[i]

\* safeCompare: same length and the same bytes
safeCompare(a, b) ==
    /\ Len(a) = Len(b)
    /\ \A i \in 1..Len(a) : a[i] = b[i]

\* req.header('x-api-token') || ''
ApiTokenHeader(r) == IF Has(r.headers, "x-api-token") THEN r.headers["x-api-token"] ELSE <<>>

\* expected && !safeCompare(req.header('x-api-token') || '', expected)
GateRejects(r) == cfg.token # <<>> /\ ~safeCompare(ApiTokenHeader(r), cfg.token)

Unauthorized ==
    JsonResponse(401, [status |-> "error", message |-> "Unauthorized",
                       details |-> [code |-> "MISSING_OR_INVALID_API_TOKEN"]])

\* app.use((req, res, next) => ...): 401, or next()
Gate ==
    /\ pc = "arrived"
    /\ IF GateRejects(req)
       THEN res' = Unauthorized /\ pc' = "done"
       ELSE res' = res /\ pc' = "start"
    /\ AsideIdle /\ UNCHANGED <<cfg, req, calls, wfRet, la>> /\ AuditIdle

\* a handler that ends after one upstream call, or before it on the error e
Respond(e, r, status, body) ==
    /\ IF e # Null
       THEN res' = ErrorResponse(e) /\ UNCHANGED <<calls, wfRet>>
       ELSE /\ Invoke(r)
            /\ res' = IF r.ret.ok THEN JsonResponse(status, body) ELSE ErrorResponse(r.ret.error)
    /\ pc' = "done"
    /\ AsideIdle /\ UNCHANGED <<cfg, req, la>> /\ AuditIdle

PlainReplies == {HttpReply(200, [id |-> "x1"]), ReplyNotFound, ReplyServerError}

\* app.delete('/collections/:idOrAlias/items/:itemId')
ItemDelete ==
    /\ pc = "start" /\ req.route = "deleteItem"
    /\ \E up \in PlainReplies :
         LET cid == resolveCollectionId(req.idOrAlias)
             r == wf("DELETE", <<"collections", cid, "items", req.itemId>>, NoQuery, NoBody, up)
         IN  Respond(assertMutationAllowed(req), r, 200,
                     [status |-> "ok", collectionId |-> cid, itemId |-> req.itemId,
                      deleted |-> Parsed(up)])

\* an array, bare or as the body of a request carries it
IsArr(v) == IsArray(v) \/ IsArray(Prop(v, "array"))
ArrOf(v) == IF IsArray(v) THEN v ELSE v.array

\* const { itemIds = [], siteId } = req.body || {}
ItemIdsOf(body) ==
    LET given == Prop(Or(body, EmptyObject), "itemIds")
    IN  IF TypeOf(given) = "undefined" THEN <<>> ELSE given

\* an itemIds value that skips the check of the empty array
ItemIdsRejectedIfNotArray(itemIds) == ~IsArr(itemIds)

\* !Array.isArray(itemIds) || itemIds.length === 0
ItemIdsRejected(itemIds) == ~IsArr(itemIds) \/ Len(ArrOf(itemIds)) = 0

\* the publish handler, which the versions of the server mount on different paths
PublishHandler(path, up) ==
    LET itemIds == ItemIdsOf(req.body)
        publishSiteId == Or(Prop(Or(req.body, EmptyObject), "siteId"), cfg.siteId)
        bad == ItemIdsRejected(itemIds)
        e == IF assertMutationAllowed(req) # Null THEN assertMutationAllowed(req)
             ELSE IF bad THEN HttpError(400, "itemIds[] required", NoDetails)
             ELSE Null
        r == wf("POST", path, NoQuery,
                PublishBody(IF IsArr(itemIds) THEN ArrOf(itemIds) ELSE <<>>,
                            publishSiteId), up)
    IN  Respond(e, r, 200,
                [status |-> "ok", collectionId |-> resolveCollectionId(req.idOrAlias),
                 published |-> Parsed(up)])

\* app.post('/collections/:idOrAlias/items/publish')
ItemsPublish ==
    /\ pc = "start" /\ req.route = "publishItems"
    /\ \E up \in PlainReplies :
         PublishHandler(<<"collections", resolveCollectionId(req.idOrAlias), "items", "publish">>, up)

\* app.post('/collections/:idOrAlias/publish') of part_000
CollectionPublish ==
    /\ pc = "start" /\ req.route = "publishCollection"
    /\ \E up \in PlainReplies :
         PublishHandler(<<"collections", resolveCollectionId(req.idOrAlias), "publish">>, up)

\* the pass-through handler of the allow-listed bases: app.all(`/${base}`), app.all(`/${base}/*`)
PassThrough ==
    /\ pc = "start" /\ req.route = "passThrough"
    /\ \E up \in PlainReplies :
         LET r == wf(req.method, <<req.base>> \o req.suffix, req.query,
                     IF Truthy(req.body) /\ ObjectKeys(req.body) # {} THEN req.body
                     ELSE NoBody, up)
         IN  Respond(assertMutationAllowed(req), r, 200,
                     [status |-> "ok", base |-> req.base, data |-> Parsed(up)])

\* app.post('/sites/:siteId/publish') of part_000
SitePublish ==
    /\ pc = "start" /\ req.route = "sitePublish"
    /\ \E up \in PlainReplies :
         Respond(Null, wf("POST", <<"sites", req.siteId, "publish">>, NoQuery, req.body, up),
                 200, [status |-> "ok", published |-> Parsed(up)])

\* app.post('/sites') of part_000
SiteCreate ==
    /\ pc = "start" /\ req.route = "siteCreate"
    /\ \E up \in PlainReplies :
         Respond(Null, wf("POST", <<"sites">>, NoQuery, req.body, up),
                 201, [status |-> "ok", created |-> Parsed(up)])

\* app.patch('/sites/:siteId') of part_000
SiteUpdate ==
    /\ pc = "start" /\ req.route = "siteUpdate"
    /\ \E up \in PlainReplies :
         Respond(Null, wf("PATCH", <<"sites", req.siteId>>, NoQuery, req.body, up),
                 200, [status |-> "ok", updated |-> Parsed(up)])

\* app.delete('/sites/:siteId') of part_000
SiteDelete ==
    /\ pc = "start" /\ req.route = "siteDelete"
    /\ \E up \in PlainReplies :
         Respond(Null, wf("DELETE", <<"sites", req.siteId>>, NoQuery, NoBody, up),
                 200, [status |-> "ok", deleted |-> Parsed(up)])

(* The other explicit routes of src/unnamed/part_000 (lines 90-511): each one *)
(* forwards the request to one upstream path and wraps the answer under one   *)
(* key.  None of them calls assertMutationAllowed.  sends tells what the      *)
(* handler hands to wf: the request body, the request query, nothing, or (one *)
(* route) a form through wfMultipart, a function that is not defined.         *)

DataApiRoutes ==
    <<
      [route |-> "GET /auth/user", method |-> "GET",
       path |-> <<"token", "authorized_by">>, params |-> {},
       sends |-> "none", status |-> 200, key |-> "user"],
      [route |-> "GET /auth/info", method |-> "GET",
       path |-> <<"token", "introspect">>, params |-> {},
       sends |-> "none", status |-> 200, key |-> "info"],
      [route |-> "GET /sites", method |-> "GET",
       path |-> <<"sites">>, params |-> {},
       sends |-> "none", status |-> 200, key |-> "sites"],
      [route |-> "GET /sites/:siteId", method |-> "GET",
       path |-> <<"sites", ":siteId">>, params |-> {"siteId"},
       sends |-> "none", status |-> 200, key |-> "site"],
      [route |-> "GET /sites/:siteId/domains", method |-> "GET",
       path |-> <<"sites", ":siteId", "domains">>, params |-> {"siteId"},
       sends |-> "none", status |-> 200, key |-> "domains"],
      [route |-> "GET /sites/:siteId/plan", method |-> "GET",
       path |-> <<"sites", ":siteId", "plan">>, params |-> {"siteId"},
       sends |-> "none", status |-> 200, key |-> "plan"],
      [route |-> "GET /sites/:siteId/pages", method |-> "GET",
       path |-> <<"sites", ":siteId", "pages">>, params |-> {"siteId"},
       sends |-> "none", status |-> 200, key |-> "pages"],
      [route |-> "GET /pages/:pageId", method |-> "GET",
       path |-> <<"pages", ":pageId">>, params |-> {"pageId"},
       sends |-> "none", status |-> 200, key |-> "page"],
      [route |-> "PUT /pages/:pageId", method |-> "PUT",
       path |-> <<"pages", ":pageId">>, params |-> {"pageId"},
       sends |-> "body", status |-> 200, key |-> "updated"],
      [route |-> "GET /pages/:pageId/content", method |-> "GET",
       path |-> <<"pages", ":pageId", "content">>, params |-> {"pageId"},
       sends |-> "none", status |-> 200, key |-> "content"],
      [route |-> "POST /pages/:pageId/content", method |-> "POST",
       path |-> <<"pages", ":pageId", "content">>, params |-> {"pageId"},
       sends |-> "body", status |-> 200, key |-> "updated"],
      [route |-> "GET /sites/:siteId/components", method |-> "GET",
       path |-> <<"sites", ":siteId", "components">>, params |-> {"siteId"},
       sends |-> "none", status |-> 200, key |-> "components"],
      [route |-> "GET /components/:componentId/content", method |-> "GET",
       path |-> <<"components", ":componentId", "content">>, params |-> {"componentId"},
       sends |-> "none", status |-> 200, key |-> "content"],
      [route |-> "POST /components/:componentId/content", method |-> "POST",
       path |-> <<"components", ":componentId", "content">>, params |-> {"componentId"},
       sends |-> "body", status |-> 200, key |-> "updated"],
      [route |-> "GET /components/:componentId/properties", method |-> "GET",
       path |-> <<"components", ":componentId", "properties">>, params |-> {"componentId"},
       sends |-> "none", status |-> 200, key |-> "properties"],
      [route |-> "POST /components/:componentId/properties", method |-> "POST",
       path |-> <<"components", ":componentId", "properties">>, params |-> {"componentId"},
       sends |-> "body", status |-> 200, key |-> "updated"],
      [route |-> "POST /sites/:siteId/collections", method |-> "POST",
       path |-> <<"sites", ":siteId", "collections">>, params |-> {"siteId"},
       sends |-> "body", status |-> 201, key |-> "created"],
      [route |-> "DELETE /collections/:collectionId", method |-> "DELETE",
       path |-> <<"collections", ":collectionId">>, params |-> {"collectionId"},
       sends |-> "none", status |-> 200, key |-> "deleted"],
      [route |-> "POST /collections/:collectionId/fields", method |-> "POST",
       path |-> <<"collections", ":collectionId", "fields">>, params |-> {"collectionId"},
       sends |-> "body", status |-> 201, key |-> "created"],
      [route |-> "PATCH /collections/:collectionId/fields/:fieldId", method |-> "PATCH",
       path |-> <<"collections", ":collectionId", "fields", ":fieldId">>, params |-> {"collectionId", "fieldId"},
       sends |-> "body", status |-> 200, key |-> "updated"],
      [route |-> "DELETE /collections/:collectionId/fields/:fieldId", method |-> "DELETE",
       path |-> <<"collections", ":collectionId", "fields", ":fieldId">>, params |-> {"collectionId", "fieldId"},
       sends |-> "none", status |-> 200, key |-> "deleted"],
      [route |-> "GET /sites/:siteId/forms", method |-> "GET",
       path |-> <<"sites", ":siteId", "forms">>, params |-> {"siteId"},
       sends |-> "none", status |-> 200, key |-> "forms"],
      [route |-> "GET /forms/:formId/schema", method |-> "GET",
       path |-> <<"forms", ":formId", "schema">>, params |-> {"formId"},
       sends |-> "none", status |-> 200, key |-> "schema"],
      [route |-> "GET /form-submissions", method |-> "GET",
       path |-> <<"form-submissions">>, params |-> {},
       sends |-> "query", status |-> 200, key |-> "submissions"],
      [route |-> "GET /form-submissions/:submissionId", method |-> "GET",
       path |-> <<"form-submissions", ":submissionId">>, params |-> {"submissionId"},
       sends |-> "none", status |-> 200, key |-> "submission"],
      [route |-> "GET /sites/:siteId/form-submissions", method |-> "GET",
       path |-> <<"sites", ":siteId", "form-submissions">>, params |-> {"siteId"},
       sends |-> "query", status |-> 200, key |-> "submissions"],
      [route |-> "PATCH /form-submissions/:submissionId", method |-> "PATCH",
       path |-> <<"form-submissions", ":submissionId">>, params |-> {"submissionId"},
       sends |-> "body", status |-> 200, key |-> "updated"],
      [route |-> "DELETE /form-submissions/:submissionId", method |-> "DELETE",
       path |-> <<"form-submissions", ":submissionId">>, params |-> {"submissionId"},
       sends |-> "none", status |-> 200, key |-> "deleted"],
      [route |-> "GET /sites/:siteId/registered-scripts", method |-> "GET",
       path |-> <<"sites", ":siteId", "registered_scripts">>, params |-> {"siteId"},
       sends |-> "none", status |-> 200, key |-> "scripts"],
      [route |-> "POST /sites/:siteId/registered-scripts/hosted", method |-> "POST",
       path |-> <<"sites", ":siteId", "registered_scripts", "hosted">>, params |-> {"siteId"},
       sends |-> "body", status |-> 201, key |-> "registered"],
      [route |-> "POST /sites/:siteId/registered-scripts/inline", method |-> "POST",
       path |-> <<"sites", ":siteId", "registered_scripts", "inline">>, params |-> {"siteId"},
       sends |-> "body", status |-> 201, key |-> "registered"],
      [route |-> "GET /sites/:siteId/custom-code", method |-> "GET",
       path |-> <<"sites", ":siteId", "custom_code">>, params |-> {"siteId"},
       sends |-> "none", status |-> 200, key |-> "customCode"],
      [route |-> "PUT /sites/:siteId/custom-code", method |-> "PUT",
       path |-> <<"sites", ":siteId", "custom_code">>, params |-> {"siteId"},
       sends |-> "body", status |-> 200, key |-> "updated"],
      [route |-> "DELETE /sites/:siteId/custom-code", method |-> "DELETE",
       path |-> <<"sites", ":siteId", "custom_code">>, params |-> {"siteId"},
       sends |-> "none", status |-> 200, key |-> "deleted"],
      [route |-> "GET /pages/:pageId/custom-code", method |-> "GET",
       path |-> <<"pages", ":pageId", "custom_code">>, params |-> {"pageId"},
       sends |-> "none", status |-> 200, key |-> "customCode"],
      [route |-> "PUT /pages/:pageId/custom-code", method |-> "PUT",
       path |-> <<"pages", ":pageId", "custom_code">>, params |-> {"pageId"},
       sends |-> "body", status |-> 200, key |-> "updated"],
      [route |-> "DELETE /pages/:pageId/custom-code", method |-> "DELETE",
       path |-> <<"pages", ":pageId", "custom_code">>, params |-> {"pageId"},
       sends |-> "none", status |-> 200, key |-> "deleted"],
      [route |-> "GET /sites/:siteId/assets", method |-> "GET",
       path |-> <<"sites", ":siteId", "assets">>, params |-> {"siteId"},
       sends |-> "query", status |-> 200, key |-> "assets"],
      [route |-> "GET /assets/:assetId", method |-> "GET",
       path |-> <<"assets", ":assetId">>, params |-> {"assetId"},
       sends |-> "none", status |-> 200, key |-> "asset"],
      [route |-> "POST /sites/:siteId/assets", method |-> "POST",
       path |-> <<"sites", ":siteId", "assets">>, params |-> {"siteId"},
       sends |-> "form", status |-> 201, key |-> "created"],
      [route |-> "PATCH /assets/:assetId", method |-> "PATCH",
       path |-> <<"assets", ":assetId">>, params |-> {"assetId"},
       sends |-> "body", status |-> 200, key |-> "updated"],
      [route |-> "DELETE /assets/:assetId", method |-> "DELETE",
       path |-> <<"assets", ":assetId">>, params |-> {"assetId"},
       sends |-> "none", status |-> 200, key |-> "deleted"],
      [route |-> "GET /sites/:siteId/asset-folders", method |-> "GET",
       path |-> <<"sites", ":siteId", "asset_folders">>, params |-> {"siteId"},
       sends |-> "none", status |-> 200, key |-> "folders"],
      [route |-> "POST /sites/:siteId/asset-folders", method |-> "POST",
       path |-> <<"sites", ":siteId", "asset_folders">>, params |-> {"siteId"},
       sends |-> "body", status |-> 201, key |-> "created"],
      [route |-> "GET /asset-folders/:folderId", method |-> "GET",
       path |-> <<"asset_folders", ":folderId">>, params |-> {"folderId"},
       sends |-> "none", status |-> 200, key |-> "folder"],
      [route |-> "GET /sites/:siteId/users", method |-> "GET",
       path |-> <<"sites", ":siteId", "users">>, params |-> {"siteId"},
       sends |-> "query", status |-> 200, key |-> "users"],
      [route |-> "GET /users/:userId", method |-> "GET",
       path |-> <<"users", ":userId">>, params |-> {"userId"},
       sends |-> "none", status |-> 200, key |-> "user"],
      [route |-> "PATCH /users/:userId", method |-> "PATCH",
       path |-> <<"users", ":userId">>, params |-> {"userId"},
       sends |-> "body", status |-> 200, key |-> "updated"],
      [route |-> "DELETE /users/:userId", method |-> "DELETE",
       path |-> <<"users", ":userId">>, params |-> {"userId"},
       sends |-> "none", status |-> 200, key |-> "deleted"],
      [route |-> "POST /sites/:siteId/users", method |-> "POST",
       path |-> <<"sites", ":siteId", "users">>, params |-> {"siteId"},
       sends |-> "body", status |-> 201, key |-> "created"],
      [route |-> "GET /sites/:siteId/access-groups", method |-> "GET",
       path |-> <<"sites", ":siteId", "access_groups">>, params |-> {"siteId"},
       sends |-> "none", status |-> 200, key |-> "groups"],
      [route |-> "GET /sites/:siteId/products", method |-> "GET",
       path |-> <<"sites", ":siteId", "products">>, params |-> {"siteId"},
       sends |-> "none", status |-> 200, key |-> "products"],
      [route |-> "POST /sites/:siteId/products", method |-> "POST",
       path |-> <<"sites", ":siteId", "products">>, params |-> {"siteId"},
       sends |-> "body", status |-> 201, key |-> "created"],
      [route |-> "GET /sites/:siteId/products/:productId", method |-> "GET",
       path |-> <<"sites", ":siteId", "products", ":productId">>, params |-> {"siteId", "productId"},
       sends |-> "none", status |-> 200, key |-> "product"],
      [route |-> "PATCH /sites/:siteId/products/:productId", method |-> "PATCH",
       path |-> <<"sites", ":siteId", "products", ":productId">>, params |-> {"siteId", "productId"},
       sends |-> "body", status |-> 200, key |-> "updated"],
      [route |-> "POST /sites/:siteId/products/:productId/skus", method |-> "POST",
       path |-> <<"sites", ":siteId", "products", ":productId", "skus">>, params |-> {"siteId", "productId"},
       sends |-> "body", status |-> 201, key |-> "created"],
      [route |-> "PATCH /sites/:siteId/skus/:skuId", method |-> "PATCH",
       path |-> <<"sites", ":siteId", "skus", ":skuId">>, params |-> {"siteId", "skuId"},
       sends |-> "body", status |-> 200, key |-> "updated"],
      [route |-> "GET /sites/:siteId/orders", method |-> "GET",
       path |-> <<"sites", ":siteId", "orders">>, params |-> {"siteId"},
       sends |-> "query", status |-> 200, key |-> "orders"],
      [route |-> "GET /sites/:siteId/orders/:orderId", method |-> "GET",
       path |-> <<"sites", ":siteId", "orders", ":orderId">>, params |-> {"siteId", "orderId"},
       sends |-> "none", status |-> 200, key |-> "order"],
      [route |-> "PATCH /sites/:siteId/orders/:orderId", method |-> "PATCH",
       path |-> <<"sites", ":siteId", "orders", ":orderId">>, params |-> {"siteId", "orderId"},
       sends |-> "body", status |-> 200, key |-> "updated"],
      [route |-> "POST /sites/:siteId/orders/:orderId/fulfill", method |-> "POST",
       path |-> <<"sites", ":siteId", "orders", ":orderId", "fulfill">>, params |-> {"siteId", "orderId"},
       sends |-> "body", status |-> 200, key |-> "fulfilled"],
      [route |-> "POST /sites/:siteId/orders/:orderId/unfulfill", method |-> "POST",
       path |-> <<"sites", ":siteId", "orders", ":orderId", "unfulfill">>, params |-> {"siteId", "orderId"},
       sends |-> "body", status |-> 200, key |-> "unfulfilled"],
      [route |-> "POST /sites/:siteId/orders/:orderId/refund", method |-> "POST",
       path |-> <<"sites", ":siteId", "orders", ":orderId", "refund">>, params |-> {"siteId", "orderId"},
       sends |-> "body", status |-> 200, key |-> "refunded"],
      [route |-> "GET /collections/:collectionId/items/:itemId/inventory", method |-> "GET",
       path |-> <<"collections", ":collectionId", "items", ":itemId", "inventory">>, params |-> {"collectionId", "itemId"},
       sends |-> "none", status |-> 200, key |-> "inventory"],
      [route |-> "PATCH /collections/:collectionId/items/:itemId/inventory", method |-> "PATCH",
       path |-> <<"collections", ":collectionId", "items", ":itemId", "inventory">>, params |-> {"collectionId", "itemId"},
       sends |-> "body", status |-> 200, key |-> "updated"],
      [route |-> "GET /sites/:siteId/ecommerce/settings", method |-> "GET",
       path |-> <<"sites", ":siteId", "ecommerce", "settings">>, params |-> {"siteId"},
       sends |-> "none", status |-> 200, key |-> "settings"],
      [route |-> "GET /sites/:siteId/webhooks", method |-> "GET",
       path |-> <<"sites", ":siteId", "webhooks">>, params |-> {"siteId"},
       sends |-> "none", status |-> 200, key |-> "webhooks"],
      [route |-> "GET /webhooks/:webhookId", method |-> "GET",
       path |-> <<"webhooks", ":webhookId">>, params |-> {"webhookId"},
       sends |-> "none", status |-> 200, key |-> "webhook"],
      [route |-> "POST /sites/:siteId/webhooks", method |-> "POST",
       path |-> <<"sites", ":siteId", "webhooks">>, params |-> {"siteId"},
       sends |-> "body", status |-> 201, key |-> "created"],
      [route |-> "DELETE /webhooks/:webhookId", method |-> "DELETE",
       path |-> <<"webhooks", ":webhookId">>, params |-> {"webhookId"},
       sends |-> "none", status |-> 200, key |-> "deleted"],
      [route |-> "GET /workspaces/:workspaceId/audit-logs", method |-> "GET",
       path |-> <<"workspaces", ":workspaceId", "audit_logs">>, params |-> {"workspaceId"},
       sends |-> "query", status |-> 200, key |-> "logs"],
      [route |-> "GET /sites/:siteId/activity-logs", method |-> "GET",
       path |-> <<"sites", ":siteId", "activity_logs">>, params |-> {"siteId"},
       sends |-> "query", status |-> 200, key |-> "logs"],
      [route |-> "GET /sites/:siteId/configuration/redirects", method |-> "GET",
       path |-> <<"sites", ":siteId", "configuration", "redirects">>, params |-> {"siteId"},
       sends |-> "none", status |-> 200, key |-> "redirects"]
    >>

\* a path segment of the table that stands for a path parameter
IsParam(seg) == SubSeq(seg, 1, 1) = ":"

\* `/sites/${req.params.siteId}/...`: the upstream path of a table entry
DataApiPath(e, params) ==
    [k \in 1..Len(e.path) |->
        IF IsParam(e.path[k]) THEN params[SubSeq(e.path[k], 2, Len(e.path[k]))]
        ELSE e.path[k]]

\* the error of calling a function that is not defined: no status, no details
ReferenceError(message) == TypeError(message)

\* app.get / app.post / app.put / app.patch / app.delete of part_000, lines 90-511
DataApiRoute ==
    /\ pc = "start" /\ req.route = "dataApi"
    /\ \E up \in PlainReplies :
         LET e == DataApiRoutes[req.entry]
             r == wf(e.method, DataApiPath(e, req.params),
                     IF e.sends = "query" THEN req.query ELSE NoQuery,
                     IF e.sends = "body" THEN req.body ELSE NoBody, up)
         IN  Respond(IF e.sends = "form" THEN ReferenceError("wfMultipart is not defined")
                     ELSE Null,
                     r, e.status,
                     [k \in {"status", e.key} |-> IF k = "status" THEN "ok" ELSE Parsed(up)])

(* inputs of the pipeline *)

RouteConfigs ==
    {[token |-> t] @@ c : t \in {<<>>, Tok},
        c \in {x \in Configs : x.apiKey /\ Truthy(x.siteId) /\ Truthy(x.articles)
                                /\ Truthy(x.resources)}}

\* the request headers that matter to the gate: no token, an empty one, the
\* right one, and wrong ones of the same, a shorter and a longer length
TokenHeaders ==
    {<<>>} \cup
    {[h \in {"x-api-token"} |-> v] :
        v \in {<<>>, Tok, <<"t", "o", "x">>, <<"t", "o">>, <<"t", "o", "k", "k">>}}

\* one request to each route of the table: every path parameter has a value,
\* a mutating request other than DELETE has a JSON body, a listing has a query
DataApiShapes ==
    {[entry |-> i,
      params |-> [n \in DataApiRoutes[i].params |-> n \o "1"]] @@
     With(BaseReq, [route |-> "dataApi", method |-> DataApiRoutes[i].method,
                    body |-> IF DataApiRoutes[i].method \in {"POST", "PUT", "PATCH"}
                             THEN [name |-> "n"] ELSE EmptyObject,
                    query |-> IF DataApiRoutes[i].sends = "query"
                              THEN [limit |-> 10] ELSE NoQuery]) :
        i \in 1..Len(DataApiRoutes)}

RouteShapes ==
    {With(BaseReq, [route |-> "createItem", method |-> "POST", idOrAlias |-> "Articles",
                    body |-> [name |-> "n", slug |-> "s"]]),
     With(BaseReq, [route |-> "updateItem", method |-> "PATCH", idOrAlias |-> "colX",
                    itemId |-> "it9", body |-> [fieldData |-> [name |-> "n"], isDraft |-> TRUE]]),
     With(BaseReq, [route |-> "deleteItem", method |-> "DELETE", idOrAlias |-> "RESOURCES",
                    itemId |-> "it9"]),
     With(BaseReq, [route |-> "sitePublish", method |-> "POST", siteId |-> "siteQ",
                    body |-> [publishToWebflowSubdomain |-> TRUE]]),
     With(BaseReq, [route |-> "siteCreate", method |-> "POST", body |-> [name |-> "n"]]),
     With(BaseReq, [route |-> "siteUpdate", method |-> "PATCH", siteId |-> "siteQ",
                    body |-> [name |-> "n"]]),
     With(BaseReq, [route |-> "siteDelete", method |-> "DELETE", siteId |-> "siteQ"])}
    \cup {With(BaseReq, [route |-> rt, method |-> "POST", idOrAlias |-> "colX",
                         body |-> b]) :
            rt \in {"publishItems", "publishCollection"},
            b \in {EmptyObject, [itemIds |-> [array |-> <<>>]],
                   [itemIds |-> [string |-> "it1"]],
                   [itemIds |-> [array |-> <<"it1">>]],
                   [itemIds |-> [array |-> <<"it1", "it2">>], siteId |-> "siteQ"]}}
    \cup {[base |-> "webhooks", suffix |-> sfx] @@
          With(BaseReq, [route |-> "passThrough", method |-> m, body |-> b, query |-> q]) :
            m \in {"GET", "POST", "PUT", "PATCH", "DELETE", "TRACE"},
            sfx \in {<<>>, <<"wh1">>},
            b \in {EmptyObject, [url |-> "u"], [array |-> <<>>], [array |-> <<"u">>]},
            q \in {NoQuery, [token |-> Tok]}}
    \cup DataApiShapes

RouteRequests ==
    {[headers |-> h] @@ With(r, [destructive |-> d]) :
        h \in TokenHeaders, d \in Destructive, r \in RouteShapes}

InitRoutes ==
    /\ cfg \in RouteConfigs
    /\ req \in RouteRequests
    /\ pc = "arrived"
    /\ calls = <<>> /\ wfRet = <<>>
    /\ la = NoFrame
    /\ collections = <<>> /\ ci = 0 /\ report = Null /\ smoke = Null
    /\ createdItemId = Undef
    /\ res = NoRes
    /\ AsideInit

NextRoutes ==
    \/ Gate
    \/ ItemCreate
    \/ ItemUpdate
    \/ ItemDelete
    \/ ItemsPublish
    \/ CollectionPublish
    \/ PassThrough
    \/ SitePublish
    \/ SiteCreate
    \/ SiteUpdate
    \/ SiteDelete
    \/ DataApiRoute

SpecRoutes == InitRoutes /\ [][NextRoutes]_vars

------------------------------------------------------------------------------
(* GET /collections: the summary of the configured collections.  In safe     *)
(* mode one lookup per configured collection is started, all of them before  *)
(* any has completed; the lookups complete in any order and the response is  *)
(* written when the last one has.                                            *)

\* [ARTICLES_COLLECTION_ID, RESOURCES_COLLECTION_ID].filter(Boolean)
SafeIds ==
    (IF Truthy(cfg.articles) THEN <<cfg.articles>> ELSE <<>>)
    \o (IF Truthy(cfg.resources) THEN <<cfg.resources>> ELSE <<>>)

\* what one lookup returns to Promise.all, from what its wf call gave
LookupEntry(id, ret) ==
    IF ret.ok
    THEN [id |-> id,
          name |-> Or(Prop(ret.data, "name"), Or(Prop(ret.data, "displayName"), "Unknown")),
          slug |-> Prop(ret.data, "slug"), ok |-> TRUE]
    ELSE [id |-> id, name |-> "Unknown (env)", ok |-> FALSE, error |-> Caught(ret.error)]

Pending(id) == [id |-> id, state |-> "pending"]
Settled(id, ret, n) == [id |-> id, state |-> "settled", entry |-> LookupEntry(id, ret), order |-> n]

NumSettled(rs) == Cardinality({i \in 1..Len(rs) : rs[i].state = "settled"})

\* the array in the order in which the lookups completed
SummaryByArrival(rs) ==
    [n \in 1..Len(rs) |-> rs[CHOOSE i \in 1..Len(rs) : rs[i].order = n].entry]

\* the array Promise.all resolves to: the entries by position
SummaryOf(rs) == [i \in 1..Len(rs) |-> rs[i].entry]

SafeSummary(rs) ==
    JsonResponse(200, [status |-> "ok", mode |-> "safe", count |-> Len(rs),
                       collections |-> SummaryOf(rs)])

NoReplyYet == [net |-> FALSE, status |-> 0, body |-> [pending |-> TRUE], json |-> TRUE]

LookupReplies ==
    {HttpReply(200, [name |-> "Articles", slug |-> "articles"]),
     HttpReply(200, [displayName |-> "Resources"]),
     HttpReply(200, [id |-> "c"]),
     ReplyNotFound, ReplyServerError, NetFail}

\* the handler up to the await of Promise.all: in full mode the whole handler
CollectionsStart ==
    /\ pc = "start" /\ req.route = "collections"
    /\ IF Get(req.query, "full") = "true"
       THEN LET siteId == Or(Get(req.query, "siteId"), cfg.siteId)
            IN  /\ IF ~Truthy(siteId)
                   THEN /\ res' = ErrorResponse(HttpError(400,
                                     "Missing siteId (and WEBFLOW_SITE_ID not set)", NoDetails))
                        /\ UNCHANGED <<calls, wfRet>>
                   ELSE \E up \in CollectionReplies :
                          LET r == listCollectionsForSite(siteId, up)
                          IN  /\ Invoke(r)
                              /\ res' = IF r.ret.ok
                                        THEN JsonResponse(200,
                                               [status |-> "ok", mode |-> "full", siteId |-> siteId,
                                                count |-> Len(CollectionsArr(r.ret.data)),
                                                collections |-> CollectionsArr(r.ret.data)])
                                        ELSE ErrorResponse(r.ret.error)
                /\ pc' = "done"
                /\ UNCHANGED results
       ELSE LET ids == SafeIds
                thrown == Thrown(HttpError(500, "WEBFLOW_API_KEY is not configured", NoDetails))
            IN  IF ~cfg.apiKey
                THEN \* every wf throws before its fetch: the lookups settle in turn
                     /\ results' = [i \in 1..Len(ids) |-> Settled(ids[i], thrown, i)]
                     /\ wfRet' = wfRet \o [i \in 1..Len(ids) |-> thrown]
                     /\ res' = SafeSummary(results')
                     /\ pc' = "done"
                     /\ UNCHANGED calls
                ELSE /\ results' = [i \in 1..Len(ids) |-> Pending(ids[i])]
                     /\ calls' = calls \o
                           [i \in 1..Len(ids) |->
                              [wfId |-> i, attempt |-> 1, method |-> "GET",
                               path |-> <<"collections", ids[i]>>, query |-> NoQuery,
                               body |-> NoBody, headers |-> Headers(NoBody),
                               reply |-> NoReplyYet]]
                     /\ IF ids = <<>>
                        THEN res' = SafeSummary(results') /\ pc' = "done"
                        ELSE res' = res /\ pc' = "lookups"
                     /\ UNCHANGED wfRet
    /\ UNCHANGED <<cfg, req, la>> /\ AuditIdle /\ OverlapIdle /\ McpIdle /\ SseIdle

\* one lookup completes: its fetch is answered, wf returns or throws, the
\* lookup's try/catch makes the entry; the last one to complete also resolves
\* Promise.all, and the handler writes the response
LookupSettle ==
    /\ pc = "lookups"
    /\ \E i \in 1..Len(results), up \in LookupReplies :
         /\ results[i].state = "pending"
         /\ LET r == wf("GET", <<"collections", results[i].id>>, NoQuery, NoBody, up)
                rs == [results EXCEPT ![i] = Settled(results[i].id, r.ret, NumSettled(results) + 1)]
            IN  /\ results' = rs
                /\ calls' = [calls EXCEPT ![i].reply = up]
                /\ wfRet' = Append(wfRet, r.ret)
                /\ IF NumSettled(rs) = Len(rs)
                   THEN res' = SafeSummary(rs) /\ pc' = "done"
                   ELSE res' = res /\ pc' = "lookups"
    /\ UNCHANGED <<cfg, req, la>> /\ AuditIdle /\ OverlapIdle /\ McpIdle /\ SseIdle

SummaryRequests ==
    {With(BaseReq, [route |-> "collections", method |-> "GET", query |-> q]) :
        q \in {NoQuery, [full |-> "false"], [full |-> "true"],
               [full |-> "true", siteId |-> "siteQ"]}}

InitSummary ==
    /\ cfg \in {c \in Configs : c.allowMutations = "false" /\ c.requireHeader = "true"}
    /\ req \in SummaryRequests
    /\ pc = "start"
    /\ calls = <<>> /\ wfRet = <<>>
    /\ la = NoFrame
    /\ collections = <<>> /\ ci = 0 /\ report = Null /\ smoke = Null
    /\ createdItemId = Undef
    /\ res = NoRes
    /\ AsideInit

NextSummary == CollectionsStart \/ LookupSettle

SpecSummary == InitSummary /\ [][NextSummary]_vars

------------------------------------------------------------------------------
(* Two GET /audit requests in progress at a time.  Each handler is the one   *)
(* of SpecAudit; here its collection loop is a single step and only the      *)
(* smoke test's calls are followed, stamped by the clock both handlers read. *)

\* the clock is followed for this many milliseconds
MaxClock == 2

Handlers == {1, 2}

\* `mcp-smoke-${ts}` and `MCP Smoke Test ${ts}`
SlugAt(ts) == <<"mcp-smoke-", ts>>
NameAt(ts) == <<"MCP Smoke Test ", ts>>

RunCall(h, method, path, body) ==
    [run |-> h, method |-> method, path |-> path, body |-> body]

\* a millisecond passes
Tick ==
    /\ clock < MaxClock
    /\ clock' = clock + 1
    /\ UNCHANGED <<cfg, req, pc, calls, wfRet, la, res, runs>>
    /\ AuditIdle /\ SummaryIdle /\ McpIdle /\ SseIdle

RunFrame ==
    /\ UNCHANGED <<cfg, req, pc, wfRet, la, res, clock>>
    /\ AuditIdle /\ SummaryIdle /\ McpIdle /\ SseIdle

\* a request arrives and its handler runs up to the first await of its collection loop
AuditArrive ==
    /\ \E h \in Handlers :
         /\ runs[h].pc = "idle"
         /\ runs' = [runs EXCEPT ![h].pc = "gathering"]
    /\ UNCHANGED calls
    /\ RunFrame

\* the collection loop is over: const ts = Date.now(), and the create call is sent
AuditReachSmoke ==
    /\ \E h \in Handlers :
         /\ runs[h].pc = "gathering"
         /\ runs' = [runs EXCEPT ![h] = [pc |-> "creating", ts |-> clock, ok |-> Undef]]
         /\ calls' = Append(calls,
               RunCall(h, "POST", <<"collections", TargetCid([collections |-> <<>>]), "items">>,
                       [fieldData |-> [name |-> NameAt(clock), slug |-> SlugAt(clock),
                                       _draft |-> TRUE, _archived |-> FALSE],
                        isDraft |-> TRUE, isArchived |-> FALSE]))
    /\ RunFrame

\* the upstream answers the call a smoke test is waiting for: on success the next
\* call of the sequence is sent, or the run ends ok; on failure the run ends
SmokeAnswered ==
    /\ \E h \in Handlers, good \in BOOLEAN :
         LET r == runs[h]
             item == <<"collections", TargetCid([collections |-> <<>>]), "items", "it1">>
         IN  /\ r.pc \in {"creating", "updating", "deleting"}
             /\ IF ~good
                THEN /\ runs' = [runs EXCEPT ![h] = [r EXCEPT !.pc = "done", !.ok = "false"]]
                     /\ UNCHANGED calls
                ELSE CASE r.pc = "creating" ->
                            /\ runs' = [runs EXCEPT ![h].pc = "updating"]
                            /\ calls' = Append(calls, RunCall(h, "PATCH", item,
                                  [fieldData |-> [name |-> NameAt(r.ts) \o <<" (updated)">>,
                                                  _draft |-> TRUE, _archived |-> FALSE],
                                   isDraft |-> TRUE, isArchived |-> FALSE]))
                       [] r.pc = "updating" ->
                            /\ runs' = [runs EXCEPT ![h].pc = "deleting"]
                            /\ calls' = Append(calls, RunCall(h, "DELETE", item, NoBody))
                       [] r.pc = "deleting" ->
                            /\ runs' = [runs EXCEPT ![h] = [r EXCEPT !.pc = "done", !.ok = "true"]]
                            /\ UNCHANGED calls
    /\ RunFrame

InitOverlap ==
    /\ cfg \in {c \in Configs : c.apiKey /\ Truthy(c.resources) /\ c.allowMutations = "true"
                                /\ c.requireHeader = "false"}
    /\ req = With(BaseReq, [route |-> "audit", method |-> "GET"])
    /\ pc = "start"
    /\ calls = <<>> /\ wfRet = <<>>
    /\ la = NoFrame
    /\ collections = <<>> /\ ci = 0 /\ report = Null /\ smoke = Null
    /\ createdItemId = Undef
    /\ res = NoRes
    /\ SummaryInit /\ McpInit /\ SseInit
    /\ clock = 0
    /\ runs = [h \in Handlers |-> [pc |-> "idle", ts |-> 0, ok |-> Undef]]

NextOverlap == Tick \/ AuditArrive \/ AuditReachSmoke \/ SmokeAnswered

SpecOverlap == InitOverlap /\ [][NextOverlap]_vars

------------------------------------------------------------------------------
(* The MCP endpoint of the first server of src/index.js: POST /mcp takes one *)
(* JSON-RPC message or a batch and answers the requests among them; its      *)
(* tools call the upstream through wfFetch.  That server does not start      *)
(* without WEBFLOW_API_KEY and WEBFLOW_SITE_ID.                              *)

\* a batch has at most this many messages
MaxBatch == 3

\* JSON.stringify, as a tagged copy of the value
Stringify(v) == [json |-> v]

\* wfFetch: one fetch; data = await res.json().catch(() => ({})) is the parsed
\* body, null for the JSON null, and {} only when the body is not JSON; a bad
\* status throws an Error with the status and that data.  A GET with a body and
\* a request of a forbidden method are refused by fetch and nothing is sent.
wfFetch(method, path, query, body, up) ==
    LET data == IF up.json THEN up.body ELSE EmptyObject
        call == [wfId |-> Len(wfRet) + 1, attempt |-> 1, method |-> method, path |-> path,
                 query |-> query, body |-> body,
                 headers |-> {"Authorization", "accept-version", "Content-Type"},
                 reply |-> up]
    IN  IF method \in ForbiddenMethods \/ (method \in {"GET", "HEAD"} /\ body # NoBody)
        THEN [calls |-> <<>>, ret |-> Thrown(<<RefusedMessage(method)>>)]
        ELSE [calls |-> <<call>>,
              ret |-> IF up.net THEN Thrown(<<"fetch failed">>)
                      ELSE IF ~ResOk(up)
                      THEN Thrown(<<"Webflow API ", up.status, ": ", Stringify(data)>>)
                      ELSE Returned(data)]

\* !(!msg || typeof msg !== 'object')
IsObject(m) ==
    LET t == TypeOf(m)
    IN  t = "array" \/ (t = "object" /\ m # Null)
\* !('id' in msg) && typeof msg.method === 'string'
IsNotification(m) ==
    ~(TypeOf(m) = "object" /\ Has(m, "id")) /\ TypeOf(Prop(m, "method")) = "string"
\* msg.id != null && typeof msg.method === 'string'
IsRequest(m) == ~Nullish(Prop(m, "id")) /\ TypeOf(Prop(m, "method")) = "string"

ResultOf(id, result) == [jsonrpc |-> "2.0", id |-> id, result |-> result]
ErrorOf(id, code, message) ==
    [jsonrpc |-> "2.0", id |-> id, error |-> [code |-> code, message |-> message]]
TextResult(id, text, isError) ==
    ResultOf(id, [content |-> <<[type |-> "text", text |-> text]>>, isError |-> isError])

InitializeResult ==
    [protocolVersion |-> "2025-03-26",
     capabilities |-> [logging |-> EmptyObject,
                       prompts |-> [listChanged |-> TRUE],
                       resources |-> [subscribe |-> FALSE, listChanged |-> TRUE],
                       tools |-> [listChanged |-> TRUE]],
     serverInfo |-> [name |-> "Webflow MCP Connector", version |-> "1.0.0"],
     instructions |-> "Use tools to manage Webflow CMS (list collections, read items, create items, publish)."]

\* the result of tools/list
ToolsListResult ==
    [tools |->
       <<[name |-> "wf_list_collections",
          description |-> "List all CMS collections in the configured Webflow site.",
          inputSchema |-> [type |-> "object", properties |-> EmptyObject]],
         [name |-> "wf_get_items",
          description |-> "List items from a specific collection.",
          inputSchema |->
             [type |-> "object",
              properties |->
                 [collectionId |-> [type |-> "string", description |-> "Webflow collection ID"],
                  limit |-> [type |-> "integer", minimum |-> 1, maximum |-> 100,
                             description |-> "Optional limit"]],
              required |-> <<"collectionId">>]],
         [name |-> "wf_create_item",
          description |->
             "Create a new item in a collection. Pass the fields payload exactly as Webflow expects.",
          inputSchema |->
             [type |-> "object",
              properties |->
                 [collectionId |-> [type |-> "string", description |-> "Webflow collection ID"],
                  fields |-> [type |-> "object",
                              description |-> "Item fields per Webflow schema"]],
              required |-> <<"collectionId", "fields">>]],
         [name |-> "wf_publish_site",
          description |-> "Publish the entire site.",
          inputSchema |->
             [type |-> "object",
              properties |-> [publishToWebflow |-> [type |-> "boolean", default |-> TRUE]]]]>>,
     nextCursor |-> Null]

\* a catch block that logs the tool's error and answers nothing
ToolErrorDropped(id, message) == <<>>

\* catch (toolErr): the response pushed for a tool that threw
ToolErrorPushed(id, message) == <<TextResult(id, <<"Tool error: ">> \o message, TRUE)>>

\* const { collectionId, ... } = args, when args is null
DestructureNull(k) ==
    "Cannot destructure property '" \o k \o "' of 'args' as it is null."

\* what a tools/call message asks for: an upstream call, or an answer without one
ToolPlan(m) ==
    LET p == Or(Prop(m, "params"), EmptyObject)
        name == Prop(p, "name")
        given == Prop(p, "arguments")
        args == IF TypeOf(given) = "undefined" THEN EmptyObject ELSE given
        cid == Prop(args, "collectionId")
        limit == Prop(args, "limit")
        fields == Prop(args, "fields")
        publishToWebflow == Prop(args, "publishToWebflow")
    IN  CASE TypeOf(name) # "string" -> [kind |-> "unknown", name |-> name]
          [] name = "wf_list_collections" ->
               [kind |-> "call", method |-> "GET",
                path |-> <<"sites", cfg.siteId, "collections">>,
                query |-> NoQuery, body |-> NoBody]
          [] name = "wf_get_items" ->
               IF IsNull(args)
               THEN [kind |-> "throw", message |-> <<DestructureNull("collectionId")>>]
               ELSE IF ~Truthy(cid)
               THEN [kind |-> "throw", message |-> <<"Missing collectionId">>]
               ELSE [kind |-> "call", method |-> "GET",
                     path |-> <<"collections", Str(cid), "items">>,
                     query |-> IF TypeOf(limit) = "number" THEN [limit |-> limit] ELSE NoQuery,
                     body |-> NoBody]
          [] name = "wf_create_item" ->
               IF IsNull(args)
               THEN [kind |-> "throw", message |-> <<DestructureNull("collectionId")>>]
               ELSE IF ~Truthy(cid) \/ ~Truthy(fields)
               THEN [kind |-> "throw", message |-> <<"Missing collectionId or fields">>]
               ELSE [kind |-> "call", method |-> "POST",
                     path |-> <<"collections", Str(cid), "items">>,
                     query |-> NoQuery, body |-> Spread(fields)]
          [] name = "wf_publish_site" ->
               IF IsNull(args)
               THEN [kind |-> "throw", message |-> <<BadRead(Null, "publishToWebflow")>>]
               ELSE [kind |-> "call", method |-> "POST",
                     path |-> <<"sites", cfg.siteId, "publish">>,
                     query |-> NoQuery,
                     body |-> [publishToWebflow |->
                                 IF TypeOf(publishToWebflow) = "undefined" THEN TRUE
                                 ELSE publishToWebflow]]
          [] OTHER -> [kind |-> "unknown", name |-> name]

\* the responses one message adds when it needs no upstream call
LocalResponses(m) ==
    IF ~IsObject(m) \/ IsNotification(m) \/ ~IsRequest(m) THEN <<>>
    ELSE CASE m.method = "initialize" -> <<ResultOf(m.id, InitializeResult)>>
           [] m.method = "tools/list" -> <<ResultOf(m.id, ToolsListResult)>>
           [] m.method = "tools/call" ->
                IF ToolPlan(m).kind = "throw" THEN ToolErrorPushed(m.id, ToolPlan(m).message)
                ELSE <<ErrorOf(m.id, -32602, <<"Unknown tool: ", Str(ToolPlan(m).name)>>)>>
           [] OTHER -> <<ErrorOf(m.id, -32601, <<"Method not found: ", m.method>>)>>

\* the message awaits wfFetch
NeedsUpstream(m) ==
    IsObject(m) /\ IsRequest(m) /\ m.method = "tools/call" /\ ToolPlan(m).kind = "call"

\* Array.isArray(body) ? body : [body]
Batch == IF Has(req.body, "array") THEN req.body.array ELSE <<req.body>>

\* the loop goes on to message k with the responses rs; past the last message
\* the handler answers: 202 without a body, or the payload
McpContinue(k, rs) ==
    /\ responses' = rs
    /\ mi' = k
    /\ IF k <= Len(Batch)
       THEN pc' = "mcp" /\ res' = res
       ELSE /\ pc' = "done"
            /\ res' = IF Len(rs) = 0 THEN JsonResponse(202, NoBody)
                      ELSE JsonResponse(200, IF Has(req.body, "array") THEN rs ELSE rs[1])

McpFrame ==
    /\ UNCHANGED <<cfg, req, la>>
    /\ AuditIdle /\ SummaryIdle /\ OverlapIdle /\ SseIdle

\* app.post('/mcp') from its start to the first message, if any
McpPost ==
    /\ pc = "start" /\ req.route = "mcp"
    /\ McpContinue(1, <<>>)
    /\ UNCHANGED <<calls, wfRet>>
    /\ McpFrame

\* the loop handles a message that needs no upstream call
McpLocal ==
    /\ pc = "mcp" /\ ~NeedsUpstream(Batch[mi])
    /\ McpContinue(mi + 1, responses \o LocalResponses(Batch[mi]))
    /\ UNCHANGED <<calls, wfRet>>
    /\ McpFrame

McpReplies ==
    {HttpReply(200, [items |-> <<>>]), HttpReply(200, Null), ReplyValidation,
     ReplyServerError, NetFail}

\* the loop handles a tools/call that reaches wfFetch, and the upstream answers
McpToolCall ==
    /\ pc = "mcp" /\ NeedsUpstream(Batch[mi])
    /\ \E up \in McpReplies, t \in {ToolPlan(Batch[mi])} :
         \E r \in {wfFetch(t.method, t.path, t.query, t.body, up)} :
            /\ calls' = calls \o r.calls
            /\ wfRet' = Append(wfRet, r.ret)
            /\ McpContinue(mi + 1,
                  responses \o
                    (IF r.ret.ok
                     THEN <<TextResult(Batch[mi].id, Stringify(r.ret.data), FALSE)>>
                     ELSE ToolErrorPushed(Batch[mi].id, r.ret.error)))
    /\ McpFrame

\* a REST helper of the first server: one wfFetch; res.json(data), or in the
\* catch block 500 with the helper's own message.  No gate and no mutation
\* guard stand before it.
RestHelper(method, path, body, failure) ==
    /\ \E up \in McpReplies :
         \E r \in {wfFetch(method, path, NoQuery, body, up)} :
            /\ calls' = calls \o r.calls
            /\ wfRet' = Append(wfRet, r.ret)
            /\ res' = IF r.ret.ok THEN JsonResponse(200, r.ret.data)
                      ELSE JsonResponse(500, [error |-> failure])
    /\ pc' = "done"
    /\ McpIdle
    /\ McpFrame

\* app.get('/collections') of the first server
RestCollections ==
    /\ pc = "start" /\ req.route = "restCollections"
    /\ RestHelper("GET", <<"sites", cfg.siteId, "collections">>, NoBody,
                  "Failed to fetch collections")

\* app.get('/collections/:id/items') of the first server
RestItems ==
    /\ pc = "start" /\ req.route = "restItems"
    /\ RestHelper("GET", <<"collections", req.id, "items">>, NoBody,
                  "Failed to fetch collection items")

\* app.post('/collections/:id/items') of the first server: body: JSON.stringify(req.body)
RestCreateItem ==
    /\ pc = "start" /\ req.route = "restCreateItem"
    /\ RestHelper("POST", <<"collections", req.id, "items">>, req.body,
                  "Failed to create collection item")

\* app.post('/publish') of the first server
RestPublish ==
    /\ pc = "start" /\ req.route = "restPublish"
    /\ RestHelper("POST", <<"sites", cfg.siteId, "publish">>, [publishToWebflow |-> TRUE],
                  "Failed to publish site")

\* the requests to the REST helpers
RestRequests ==
    {[id |-> Undef] @@ With(BaseReq, [route |-> "restCollections", method |-> "GET"]),
     [id |-> Undef] @@ With(BaseReq, [route |-> "restPublish", method |-> "POST"])}
    \cup {[id |-> "c1"] @@ With(BaseReq, [route |-> "restItems", method |-> "GET"])}
    \cup {[id |-> "c1"] @@ With(BaseReq, [route |-> "restCreateItem", method |-> "POST",
                                          body |-> b]) :
            b \in {EmptyObject, [name |-> "n"]}}

\* the messages a client sends
McpMessages ==
    <<[jsonrpc |-> "2.0", method |-> "notifications/initialized"],
      [jsonrpc |-> "2.0", id |-> "1", method |-> "initialize"],
      [jsonrpc |-> "2.0", id |-> "2", method |-> "tools/list"],
      [jsonrpc |-> "2.0", id |-> "3", method |-> "tools/call",
       params |-> [name |-> "wf_list_collections"]],
      [jsonrpc |-> "2.0", id |-> "4", method |-> "tools/call",
       params |-> [name |-> "wf_get_items", arguments |-> [limit |-> 5]]],
      [jsonrpc |-> "2.0", id |-> "5", method |-> "tools/call",
       params |-> [name |-> "wf_get_items", arguments |-> [collectionId |-> "colA", limit |-> 5]]],
      [jsonrpc |-> "2.0", id |-> "6", method |-> "tools/call",
       params |-> [name |-> "wf_create_item",
                   arguments |-> [collectionId |-> "colA", fields |-> [name |-> "n"]]]],
      [jsonrpc |-> "2.0", id |-> "7", method |-> "tools/call",
       params |-> [name |-> "wf_publish_site"]],
      [jsonrpc |-> "2.0", id |-> "8", method |-> "tools/call", params |-> [name |-> "wf_nope"]],
      [jsonrpc |-> "2.0", id |-> "9", method |-> "resources/list"],
      [jsonrpc |-> "2.0", id |-> Null, method |-> "ping"],
      [jsonrpc |-> "2.0", id |-> "10", method |-> 5],
      [jsonrpc |-> "2.0", id |-> "3", result |-> [ok |-> TRUE]],
      5>>

\* the index sequences of the batches of up to n messages
RECURSIVE BatchesUpTo(_)
BatchesUpTo(n) ==
    IF n = 0 THEN {<<>>}
    ELSE LET shorter == BatchesUpTo(n - 1)
         IN  shorter \cup {Append(b, i) : b \in {x \in shorter : Len(x) = n - 1},
                                          i \in 1..Len(McpMessages)}

McpBodyOf(b) == [array |-> [k \in 1..Len(b) |-> McpMessages[b[k]]]]

InitMcp ==
    /\ cfg \in {c \in Configs : c.apiKey /\ Truthy(c.siteId) /\ Truthy(c.articles)
                                /\ Truthy(c.resources) /\ c.allowMutations = "false"
                                /\ c.requireHeader = "true"}
    /\ \/ \E b \in BatchesUpTo(MaxBatch) :
            req = With(BaseReq, [route |-> "mcp", method |-> "POST", body |-> McpBodyOf(b)])
       \/ \E i \in 1..Len(McpMessages) :
            /\ IsObject(McpMessages[i])
            /\ req = With(BaseReq, [route |-> "mcp", method |-> "POST", body |-> McpMessages[i]])
       \/ req \in RestRequests
    /\ pc = "start"
    /\ calls = <<>> /\ wfRet = <<>>
    /\ la = NoFrame
    /\ collections = <<>> /\ ci = 0 /\ report = Null /\ smoke = Null
    /\ createdItemId = Undef
    /\ res = NoRes
    /\ AsideInit

NextMcp ==
    \/ McpPost \/ McpLocal \/ McpToolCall
    \/ RestCollections \/ RestItems \/ RestCreateItem \/ RestPublish

SpecMcp == InitMcp /\ [][NextMcp]_vars

------------------------------------------------------------------------------
(* The event streams.  The first server of src/index.js has GET /mcp, whose  *)
(* streams are kept in sseClients, and the legacy GET /sse; the second       *)
(* server has a GET /sse behind its gate.  Clients open streams and close    *)
(* them in any order; each open stream has a heartbeat timer.                *)

\* this many clients connect, each once
MaxClients == 3
\* a stream is followed for this many firings of its timer
MaxBeats == 2

Clients == 1..MaxClients

SseFrame ==
    /\ UNCHANGED <<cfg, req, pc, calls, wfRet, la, res>>
    /\ AuditIdle /\ SummaryIdle /\ OverlapIdle /\ McpIdle

\* the stream of client c is open on the route, its first events written
Opened(c, route, first) ==
    [conn EXCEPT ![c].state = "open", ![c].route = route, ![c].status = 200,
                 ![c].events = Len(first), ![c].written = first]

\* app.get('/mcp') of the first server: the stream is registered, greeted with
\* a log event, and its timer is set
SseOpen ==
    /\ \E c \in Clients :
         /\ conn[c].state = "new" /\ conn[c].server = 1
         /\ sseClients' = sseClients \cup {c}
         /\ intervals' = intervals \cup {c}
         /\ conn' = Opened(c, "mcp", <<"log">>)
    /\ SseFrame

\* app.get('/sse') of the first server: the endpoint and connection events are
\* written and the timer is set; the stream is not registered
LegacySseOpen ==
    /\ \E c \in Clients :
         /\ conn[c].state = "new" /\ conn[c].server = 1
         /\ intervals' = intervals \cup {c}
         /\ conn' = Opened(c, "sse", <<"endpoint", "connection">>)
         /\ UNCHANGED sseClients
    /\ SseFrame

\* app.get('/sse') of the second server, after its gate: 401 and no stream, or
\* the hello event is written and the timer is set
HelloSseOpen ==
    /\ \E c \in Clients, h \in {<<>>, [k \in {"x-api-token"} |-> Tok]} :
         /\ conn[c].state = "new" /\ conn[c].server = 2
         /\ IF GateRejects([headers |-> h])
            THEN /\ conn' = [conn EXCEPT ![c].state = "refused", ![c].route = "sse",
                                         ![c].status = 401]
                 /\ UNCHANGED intervals
            ELSE /\ conn' = Opened(c, "sse", <<"hello">>)
                 /\ intervals' = intervals \cup {c}
         /\ UNCHANGED sseClients
    /\ SseFrame

\* the timer of a stream fires (every 10 s in the first server, every 25 s in
\* the second): a heartbeat event is written to its response
SseHeartbeat ==
    /\ \E c \in intervals :
         /\ conn[c].beats + conn[c].late < MaxBeats
         /\ conn' = IF conn[c].state = "open"
                    THEN [conn EXCEPT ![c].beats = @ + 1, ![c].events = @ + 1,
                                      ![c].written = Append(@, "heartbeat")]
                    ELSE [conn EXCEPT ![c].late = @ + 1]
         /\ UNCHANGED <<sseClients, intervals>>
    /\ SseFrame

\* a close handler that takes the stream off the registry and leaves its timer set
SseCloseKeepsTimer ==
    /\ \E c \in Clients :
         /\ conn[c].state = "open" /\ conn[c].server = 1 /\ conn[c].route = "mcp"
         /\ sseClients' = sseClients \ {c}
         /\ intervals' = intervals
         /\ conn' = [conn EXCEPT ![c].state = "closed", ![c].ended = TRUE]
    /\ SseFrame

\* req.on('close') of GET /mcp: the timer is cleared, the stream leaves the
\* registry, the response is ended
SseClose ==
    /\ \E c \in Clients :
         /\ conn[c].state = "open" /\ conn[c].server = 1 /\ conn[c].route = "mcp"
         /\ intervals' = intervals \ {c}
         /\ sseClients' = sseClients \ {c}
         /\ conn' = [conn EXCEPT ![c].state = "closed", ![c].ended = TRUE]
    /\ SseFrame

\* req.on('close') of GET /sse of the first server: the timer is cleared and
\* the response is ended
LegacySseClose ==
    /\ \E c \in Clients :
         /\ conn[c].state = "open" /\ conn[c].server = 1 /\ conn[c].route = "sse"
         /\ intervals' = intervals \ {c}
         /\ conn' = [conn EXCEPT ![c].state = "closed", ![c].ended = TRUE]
         /\ UNCHANGED sseClients
    /\ SseFrame

\* req.on('close') of GET /sse of the second server: the timer is cleared; the
\* response is not ended
HelloSseClose ==
    /\ \E c \in Clients :
         /\ conn[c].state = "open" /\ conn[c].server = 2
         /\ intervals' = intervals \ {c}
         /\ conn' = [conn EXCEPT ![c].state = "closed"]
         /\ UNCHANGED sseClients
    /\ SseFrame

\* one of the two servers runs; the first one is configured as it must be to
\* start, the second one with or without CONNECTOR_API_TOKEN
InitSse ==
    /\ \E s \in {1, 2} :
         /\ cfg \in {[token |-> t] @@ c :
                        t \in IF s = 1 THEN {<<>>} ELSE {<<>>, Tok},
                        c \in {d \in Configs :
                                  d.apiKey /\ Truthy(d.siteId) /\ Truthy(d.articles)
                                  /\ Truthy(d.resources) /\ d.allowMutations = "false"
                                  /\ d.requireHeader = "true"}}
         /\ req = With(BaseReq, [route |-> IF s = 1 THEN "mcp" ELSE "sse", method |-> "GET"])
         /\ conn = [c \in Clients |->
                      [state |-> "new", server |-> s, route |-> "none", status |-> 0,
                       events |-> 0, written |-> <<>>, beats |-> 0, late |-> 0,
                       ended |-> FALSE]]
    /\ pc = "start"
    /\ calls = <<>> /\ wfRet = <<>>
    /\ la = NoFrame
    /\ collections = <<>> /\ ci = 0 /\ report = Null /\ smoke = Null
    /\ createdItemId = Undef
    /\ res = NoRes
    /\ SummaryInit /\ OverlapInit /\ McpInit
    /\ sseClients = {} /\ intervals = {}

NextSse ==
    \/ SseOpen \/ LegacySseOpen \/ HelloSseOpen
    \/ SseHeartbeat
    \/ SseClose \/ LegacySseClose \/ HelloSseClose

SpecSse == InitSse /\ [][NextSse]_vars

------------------------------------------------------------------------------
(* Properties of the upstream client (C1, C2) *)

FetchesOf(i) == SelectSeq(calls, LAMBDA c : c.wfId = i)

\* the "unsupported version" signature of a failed first attempt
VersionMismatch(up) ==
    /\ ~up.net /\ up.status = 400
    /\ Get(up.body, "err") = "UnsupportedVersion"

FirstFailed(i) == FetchesOf(i) # <<>> /\ ~ResOk(FetchesOf(i)[1].reply)

\* what the upstream's error envelope says, reply by reply
EnvelopeMessage(up) ==
    CASE up = ReplyVersionMismatch -> "UnsupportedVersion"
      [] up = ReplyAltKeyRequired -> "'fields' is required"
      [] up = ReplyValidation -> "Validation Error"
      [] up = ReplyNotFound -> "Not Found"
      [] up = ReplyServerError -> "Webflow API error 500"
      [] OTHER -> "fetch failed"

\* C1 as stated: a first attempt that fails with 400 and the version-mismatch
\* signature is followed by exactly one more request, carrying the legacy version
\* tag, whose outcome is the caller's result.
C1_LegacyRetryIssued ==
    \A i \in 1..Len(wfRet) :
        (FirstFailed(i) /\ VersionMismatch(FetchesOf(i)[1].reply)) =>
            /\ Len(FetchesOf(i)) = 2
            /\ "Accept-Version" \in FetchesOf(i)[2].headers

\* C1 amended: a first attempt that fails with 400 and the version-mismatch
\* signature is the only request of the call; no request carries a version tag,
\* and the caller receives that 400 with the upstream's message.
C1_VersionMismatchNotRetried ==
    \A i \in 1..Len(wfRet) :
        (FirstFailed(i) /\ VersionMismatch(FetchesOf(i)[1].reply)) =>
            /\ Len(FetchesOf(i)) = 1
            /\ "Accept-Version" \notin FetchesOf(i)[1].headers
            /\ ~wfRet[i].ok
            /\ wfRet[i].error.status = 400
            /\ wfRet[i].error.message = EnvelopeMessage(FetchesOf(i)[1].reply)

C1_Witness ==
    /\ pc = "done" /\ Len(wfRet) >= 1
    /\ FirstFailed(Len(wfRet))
    /\ VersionMismatch(FetchesOf(Len(wfRet))[1].reply)
    /\ res.written /\ res.status = 400

\* C2: a first attempt that fails without the version-mismatch signature (another
\* 400, any other status, or no reply at all) is the only request of the call and
\* its status and message reach the caller; no call sends more than two requests.
C2_OtherFailuresPropagate ==
    \A i \in 1..Len(wfRet) :
        /\ Len(FetchesOf(i)) <= 2
        /\ (FirstFailed(i) /\ ~VersionMismatch(FetchesOf(i)[1].reply)) =>
              LET up == FetchesOf(i)[1].reply
              IN  /\ Len(FetchesOf(i)) = 1
                  /\ ~wfRet[i].ok
                  /\ wfRet[i].error.message = EnvelopeMessage(up)
                  /\ (~up.net => wfRet[i].error.status = up.status)

C2_Witness ==
    /\ pc = "done" /\ Len(wfRet) >= 1
    /\ FirstFailed(Len(wfRet))
    /\ FetchesOf(Len(wfRet))[1].reply = ReplyNotFound
    /\ res.written /\ res.status = 404 /\ res.body.message = "Not Found"

------------------------------------------------------------------------------
(* Properties of the item writer (C3) *)

IsWrite == req.route \in {"createItem", "updateItem"}
AltKeyRequired(up) ==
    ~up.net /\ up.status = 400 /\ Get(up.body, "message") = "'fields' is required"

\* C3 as stated: a write whose attempt under the primary key fails with 400 and
\* "required alternate key" is retried once under the alternate key and reports
\* usedAlternateShape = true; every other write is not retried and reports false.
C3_AlternateShapeRetry ==
    (pc = "done" /\ IsWrite /\ Len(calls) >= 1) =>
        IF AltKeyRequired(calls[1].reply)
        THEN /\ Len(calls) = 2
             /\ Has(calls[2].body, "fields")
             /\ Has(res.body, "usedAlternateShape")
        ELSE Len(calls) = 1

\* C3 amended: every item create or update sends at most one request, with the
\* values under the primary key fieldData; a 400 "required alternate key" failure
\* is not retried and is the response; no response carries usedAlternateShape.
C3_NoAlternateShapeRetry ==
    (pc = "done" /\ IsWrite) =>
        /\ Len(calls) <= 1
        /\ \A j \in 1..Len(calls) :
              Has(calls[j].body, "fieldData") /\ ~Has(calls[j].body, "fields")
        /\ ~Has(res.body, "usedAlternateShape")
        /\ (Len(calls) = 1 /\ AltKeyRequired(calls[1].reply)) =>
              res.status = 400 /\ res.body.message = "'fields' is required"

C3_Witness ==
    /\ pc = "done" /\ req.route = "createItem"
    /\ Len(calls) = 1 /\ AltKeyRequired(calls[1].reply)
    /\ res.status = 400

------------------------------------------------------------------------------
(* Properties of listAllItems (C4, C5) *)

ListingAll == req.route = "listItems" /\ pc # "start" /\ Get(req.query, "all") = "true"

ReplyArr(c) == IF ResOk(c.reply) THEN PageArr(c.reply.body) ELSE <<>>
ShortPage(c) == ResOk(c.reply) /\ Len(PageArr(c.reply.body)) < DefaultPageSize
FullPage(c) == ResOk(c.reply) /\ Len(PageArr(c.reply.body)) >= DefaultPageSize

RECURSIVE ConcatPages(_, _)
ConcatPages(cs, n) == IF n = 0 THEN <<>> ELSE ConcatPages(cs, n - 1) \o ReplyArr(cs[n])

\* C4: when the k-th page is the first short one, listAllItems has sent exactly k
\* list requests, with offsets 0, pageSize, ..., (k-1)*pageSize and limit pageSize,
\* and returns the k pages concatenated in order.
C4_PagesConcatenated ==
    (ListingAll /\ la.state = "returned") =>
        LET k == Len(calls)
        IN  /\ k >= 1 /\ la.pages = k
            /\ \A j \in 1..k :
                  /\ calls[j].method = "GET"
                  /\ calls[j].path = <<"collections", la.cid, "items">>
                  /\ calls[j].query = [offset |-> (j - 1) * DefaultPageSize,
                                       limit |-> DefaultPageSize]
                  /\ (j < k => FullPage(calls[j]))
            /\ ShortPage(calls[k])
            /\ la.items = ConcatPages(calls, k)
            /\ res.status = 200 /\ res.body.items = la.items
            /\ res.body.total = Len(la.items)

\* pages of 100, 100 and 37 items: 237 items in 3 calls
C4_Witness ==
    /\ ListingAll /\ la.state = "returned"
    /\ Len(calls) = 3 /\ Len(la.items) = 237
    /\ Len(ReplyArr(calls[3])) = 37

\* C5: listAllItems has ended exactly when some page was short or some list call
\* failed; while every page so far was full it is still looping, at the next
\* offset, with nothing returned, however many pages that is.
C5_EndsOnlyOnShortPageOrFailure ==
    ListingAll =>
        /\ (la.state # "loop") <=>
              (\/ \E j \in 1..Len(calls) : ShortPage(calls[j])
               \/ \E i \in 1..Len(wfRet) : ~wfRet[i].ok)
        /\ la.state = "loop" =>
              /\ pc = "listing" /\ res = NoRes
              /\ la.offset = la.pages * DefaultPageSize
              /\ Len(calls) = la.pages
        /\ la.state # "loop" => pc = "done" /\ res.written

C5_Witness ==
    /\ ListingAll /\ la.state = "loop"
    /\ la.pages >= 3
    /\ \A j \in 1..Len(calls) : FullPage(calls[j])
    /\ res = NoRes
    /\ AsideInit

------------------------------------------------------------------------------
(* Properties of the audit's collection loop (C6) *)

InAudit == req.route = "audit" /\ pc # "start"

\* the ids of the first n collections of the walk, as the loop computes them
RECURSIVE WalkIds(_)
WalkIds(n) ==
    IF n = 0 THEN <<>> ELSE Append(WalkIds(n - 1), CollectionId(collections[n]))

\* the upstream path of the item list of the collection of id cid
ItemsPathOf(cid) == <<"collections", Str(cid), "items">>

ListCallsAt(p) == SelectSeq(calls, LAMBDA c : c.method = "GET" /\ c.path = p)

ListCallsOf(j) == ListCallsAt(ItemsPathOf(CollectionId(collections[j])))

\* the item fetch at path p failed: some page was refused, or no request could
\* be made at all
FetchFailedAt(p) ==
    \/ ~cfg.apiKey
    \/ \E k \in 1..Len(calls) :
          /\ calls[k].method = "GET"
          /\ calls[k].path = p
          /\ ~ResOk(calls[k].reply)

RECURSIVE ItemsOfSucceeded(_, _)
ItemsOfSucceeded(entries, n) ==
    IF n = 0 THEN 0
    ELSE ItemsOfSucceeded(entries, n - 1)
         + (IF entries[n].error = Null THEN entries[n].counts.items ELSE 0)

\* some collection reported so far is reported with a fetch error
SomeFetchFailed == \E j \in 1..Len(report.collections) : report.collections[j].error # Null

\* every entry of the report is that of the collection at its place in the walk,
\* and carries an error exactly when the fetch of its items failed, then with 0
\* items
EntriesFollowFetches ==
    LET ids == WalkIds(Len(report.collections))
    IN  \A j \in 1..Len(report.collections) :
          LET e == report.collections[j]
              p == ItemsPathOf(ids[j])
              failed == FetchFailedAt(p)
          IN  /\ e.id = ids[j]
              /\ (e.error # Null) <=> failed
              /\ failed =>
                    /\ e.counts.items = 0
                    /\ e.error.status >= 400 /\ e.error.message # ""
              /\ cfg.apiKey => Len(ListCallsAt(p)) >= 1

\* once the loop is over every collection has its entry, the total is the sum
\* over the collections that succeeded, and the report is answered with status 'ok'
RunGoesOn ==
    /\ report.status = "ok"
    /\ report.totals.items = ItemsOfSucceeded(report.collections, Len(report.collections))
    /\ pc # "fetch" => Len(report.collections) = Len(collections)
    /\ pc = "done" =>
          /\ res.status = 200 /\ res.body.status = "ok"
          /\ res.body.totals = report.totals
          /\ res.body.collections = report.collections

\* C6 as stated: a collection whose item fetch failed, on whichever page, is
\* reported with its error and 0 items; after such a failure the loop still
\* fetches and reports every later collection; totals.items is the sum over
\* the collections that succeeded; the report's status is 'ok'.
C6_FetchFailureIsPerCollection ==
    InAudit =>
        /\ EntriesFollowFetches
        /\ SomeFetchFailed => RunGoesOn

\* the classification threw on a null item and the handler answered the error
ClassificationThrew ==
    /\ pc = "done" /\ res.status = 500
    /\ \E k \in 1..Len(calls) :
          /\ IsArray(Prop(calls[k].reply.body, "items"))
          /\ ScanThrows(calls[k].reply.body.items)

\* what the handler does guarantee: the fetch failure itself never ends the run;
\* the run goes on as stated unless the items of a collection make the
\* classification throw
FetchFailureAloneIsPerCollection ==
    InAudit =>
        /\ EntriesFollowFetches
        /\ ~ClassificationThrew => RunGoesOn

\* the first collection's fetch fails, the page of the second holds a null
\* item: the run ends in 500 with one entry, the second collection unreported
FetchFailureThenThrow ==
    /\ InAudit /\ pc = "done" /\ cfg.apiKey
    /\ Len(collections) = 2 /\ Len(report.collections) = 1
    /\ report.collections[1].error # Null
    /\ res.status = 500

\* two collections: the first fails on its second page, the second has 37 items
FailureThenReportedCollection ==
    /\ InAudit /\ pc = "done" /\ cfg.apiKey
    /\ Len(report.collections) = 2
    /\ Len(ListCallsOf(1)) = 2 /\ ~ResOk(ListCallsOf(1)[2].reply)
    /\ report.collections[1].error # Null
    /\ report.collections[2].error = Null
    /\ report.totals.items = 37
    /\ res.body.status = "ok"

------------------------------------------------------------------------------
(* Properties of the smoke test (C7 - C10) *)

\* the requests of the smoke test, in order
SmokeCalls == SelectSeq(calls, LAMBDA c : c.method # "GET")

IsCreate(c) == c.method = "POST" /\ Len(c.path) = 3 /\ c.path[3] = "items"
IsPublish(c) == c.method = "POST" /\ Len(c.path) = 4 /\ c.path[4] = "publish"
IsUpdate(c) == c.method = "PATCH"
IsDelete(c) == c.method = "DELETE"

\* a creation reply with none of the recognised identifier fields
NoIdentifier(body) ==
    /\ ~Has(body, "id") /\ ~Has(body, "_id") /\ ~Has(body, "itemId")
    /\ (Has(body, "item") => ~Has(body.item, "id") /\ ~Has(body.item, "_id"))

\* the identifier each creation reply of the model carries
IdentifierOf(body) ==
    CASE body = [id |-> "it1", _id |-> "it2"] -> "it1"
      [] body = [item |-> [_id |-> "it3", id |-> "it4"]] -> "it3"
      [] body = [item |-> [id |-> "it4"]] -> "it4"
      [] body = [itemId |-> "it5"] -> "it5"
      [] OTHER -> Undef

\* C7 as stated: after a create that succeeded without any recognised identifier
\* in its reply, no update, publish or delete is sent and the run ends ok = false.
C7_NoIdentifierAbortsSmoke ==
    (InAudit /\ Len(SmokeCalls) >= 1 /\ ResOk(SmokeCalls[1].reply)
        /\ NoIdentifier(SmokeCalls[1].reply.body)) =>
        /\ Len(SmokeCalls) = 1
        /\ pc = "done" => Has(smoke, "ok") /\ ~smoke.ok

PublishFailed ==
    /\ InAudit /\ Publish
    /\ \E j \in 1..Len(SmokeCalls) : IsPublish(SmokeCalls[j]) /\ ~ResOk(SmokeCalls[j].reply)

\* C8 as stated: after a failed publish call the delete call is still sent, and
\* ok is decided by create, update and delete alone.
C8_PublishFailureNonFatal ==
    (PublishFailed /\ pc = "done") =>
        /\ IsDelete(SmokeCalls[Len(SmokeCalls)])
        /\ smoke.ok = ResOk(SmokeCalls[Len(SmokeCalls)].reply)

\* C8 amended: a failed publish call ends the sequence: it is the last request,
\* no delete is sent, and the result has ok = false with the publish call's
\* status and message as its error, created and updated staying recorded ok.
C8_PublishFailureAborts ==
    PublishFailed =>
        LET last == SmokeCalls[Len(SmokeCalls)]
        IN  /\ Len(SmokeCalls) = 3
            /\ IsPublish(last) /\ ~ResOk(last.reply)
            /\ \A j \in 1..Len(SmokeCalls) : ~IsDelete(SmokeCalls[j])
            /\ pc = "done"
            /\ smoke.ok = FALSE
            /\ smoke.error.status = last.reply.status
            /\ smoke.error.message = EnvelopeMessage(last.reply)
            /\ smoke.created.ok /\ smoke.updated.ok
            /\ ~Has(smoke, "published") /\ ~Has(smoke, "deleted")
            /\ res.status = 200 /\ res.body.smokeTest = smoke

C8_Witness ==
    /\ PublishFailed /\ pc = "done"
    /\ SmokeCalls[3].reply = ReplyServerError
    /\ smoke.created.itemId = "it1"
    /\ smoke.ok = FALSE

AllSmokeCallsOk == \A j \in 1..Len(SmokeCalls) : ResOk(SmokeCalls[j].reply)

\* the handler reached its smoke test: smokeResult is no longer null
SmokeTestEntered == InAudit /\ smoke # Null

\* C9: in a smoke test with a target collection, publishing not requested and
\* create, update and delete succeeding, the upstream gets exactly POST (create),
\* PATCH and DELETE of the created id, in this order, no publish call, and the
\* result is ok = true without a published field.
C9_SmokeWithoutPublish ==
    (SmokeTestEntered /\ pc = "done" /\ DoSmoke /\ ~Publish /\ cfg.apiKey
        /\ Truthy(TargetCid(report)) /\ AllSmokeCallsOk) =>
        LET t == TargetCid(report)
            id == IdentifierOf(SmokeCalls[1].reply.body)
        IN  /\ Len(SmokeCalls) = 3
            /\ SmokeCalls[1].method = "POST"
            /\ SmokeCalls[1].path = <<"collections", t, "items">>
            /\ SmokeCalls[2].method = "PATCH"
            /\ SmokeCalls[2].path = <<"collections", t, "items", id>>
            /\ SmokeCalls[3].method = "DELETE"
            /\ SmokeCalls[3].path = <<"collections", t, "items", id>>
            /\ \A j \in 1..3 : ~IsPublish(SmokeCalls[j])
            /\ smoke.ok = TRUE
            /\ ~Has(smoke, "published")
            /\ smoke.created.itemId = id
            /\ res.status = 200 /\ res.body.smokeTest = smoke

C9_Witness ==
    /\ InAudit /\ pc = "done" /\ DoSmoke /\ ~Publish /\ cfg.apiKey
    /\ Len(SmokeCalls) = 3 /\ AllSmokeCallsOk
    /\ SmokeCalls[1].reply.body = [id |-> "it1", _id |-> "it2"]
    /\ smoke.ok = TRUE /\ smoke.collectionId = "colR"

\* C10: a failed create, update or delete is the last request of the smoke
\* test, and the result has ok = false with that call's status and message as
\* its error.
C10_FailureAbortsSmoke ==
    InAudit =>
        \A j \in 1..Len(SmokeCalls) :
            LET c == SmokeCalls[j]
            IN  ((IsCreate(c) \/ IsUpdate(c) \/ IsDelete(c)) /\ ~ResOk(c.reply)) =>
                    /\ j = Len(SmokeCalls)
                    /\ pc = "done"
                    /\ smoke.ok = FALSE
                    /\ smoke.error.status = c.reply.status
                    /\ smoke.error.message = EnvelopeMessage(c.reply)
                    /\ res.status = 200 /\ res.body.smokeTest = smoke

\* an update that fails after a successful create: nothing is sent after it
C10_Witness ==
    /\ InAudit /\ pc = "done"
    /\ Len(SmokeCalls) = 2
    /\ ResOk(SmokeCalls[1].reply)
    /\ IsUpdate(SmokeCalls[2]) /\ SmokeCalls[2].reply = ReplyValidation
    /\ smoke.ok = FALSE /\ smoke.error.status = 400
    /\ smoke.error.message = "Validation Error"

------------------------------------------------------------------------------
(* Properties of what the smoke test leaves behind (C11) *)

\* the create call of the smoke test was accepted by the upstream
CreatedUpstream ==
    /\ InAudit /\ Len(SmokeCalls) >= 1
    /\ IsCreate(SmokeCalls[1]) /\ ResOk(SmokeCalls[1].reply)

\* some delete call naming the created item was accepted by the upstream
DeletedCreated ==
    \E j \in 1..Len(SmokeCalls) :
        /\ IsDelete(SmokeCalls[j]) /\ ResOk(SmokeCalls[j].reply)
        /\ Truthy(IdentifierOf(SmokeCalls[1].reply.body))
        /\ SmokeCalls[j].path[4] = IdentifierOf(SmokeCalls[1].reply.body)

\* C11 as stated: a smoke test that ends with an item created upstream and not
\* deleted reports ok = false together with the created item's identifier and
\* the target collection id.
C11_OrphanIdentifiable ==
    (CreatedUpstream /\ pc = "done" /\ ~DeletedCreated) =>
        /\ smoke.ok = FALSE
        /\ Truthy(smoke.created.itemId)
        /\ smoke.collectionId = SmokeCalls[1].path[2]
        /\ res.body.smokeTest = smoke

\* what the handler does guarantee: when the creation reply carries an identifier
\* under a recognised name, the record of a run that did not delete it has
\* ok = false, that identifier and the target collection id
OrphanReportedWhenIdentified ==
    (CreatedUpstream /\ pc = "done" /\ ~DeletedCreated
        /\ ~NoIdentifier(SmokeCalls[1].reply.body)) =>
        /\ smoke.ok = FALSE
        /\ smoke.created.itemId = IdentifierOf(SmokeCalls[1].reply.body)
        /\ smoke.collectionId = SmokeCalls[1].path[2]
        /\ res.body.smokeTest = smoke

------------------------------------------------------------------------------
(* Properties of the classification (C12 - C14) *)

Scanned == req.route = "audit" /\ pc = "scanned"

\* a and b are the same value: of the same kind and with the same content
Equal(a, b) == TypeOf(a) = TypeOf(b) /\ a = b

\* the number of items of the list that carry a slug
SlugCount(items, s) == Cardinality({i \in 1..Len(items) : Equal(ItemSlug(items[i]), s)})

\* a non-empty slug that more than one item of the list carries
Duplicated(items, s) == Filled(s) /\ SlugCount(items, s) > 1

IdsWithSlug(items, s) == IdsOf(SelectSeq(items, LAMBDA it : Equal(ItemSlug(it), s)))

\* the groups g are exactly the duplicated slugs of the items, each with the
\* identifiers of its items in encounter order
GroupsAreTheDuplicates(items, g) ==
    /\ \A k \in 1..Len(g) :
          /\ Duplicated(items, g[k].slug)
          /\ g[k].itemIds = IdsWithSlug(items, g[k].slug)
    /\ \A k, l \in 1..Len(g) : k # l => ~Equal(g[k].slug, g[l].slug)
    /\ \A i \in 1..Len(items) :
          Duplicated(items, ItemSlug(items[i])) =>
              \E k \in 1..Len(g) : Equal(g[k].slug, ItemSlug(items[i]))

\* C12 as stated: the duplicate-slug groups reported for a list of items are
\* exactly the non-empty slugs that more than one item carries, one group per
\* slug; a group lists the identifiers of the items with that slug, all of them
\* and only them, in encounter order; no slug of a single item is a group.
C12_DuplicateSlugGroups ==
    Scanned =>
        /\ GroupsAreTheDuplicates(la.items, report.collections[1].duplicateSlugs)
        /\ report.collections[1].counts.duplicateSlugGroups
              = Len(report.collections[1].duplicateSlugs)

\* a slug that is a string, a number or a boolean
PrimitiveSlug(it) == TypeOf(ItemSlug(it)) # "object" \/ ItemSlug(it) = Null

\* what the handler does guarantee: the statement holds of the lists whose slugs
\* are primitive values, which the Map compares by value
DuplicateGroupsOfPrimitiveSlugs ==
    (Scanned /\ \A i \in 1..Len(la.items) : PrimitiveSlug(la.items[i])) =>
        GroupsAreTheDuplicates(la.items, report.collections[1].duplicateSlugs)

\* items with the slugs a, b, a, c, a: one group, a, with the three identifiers
GroupOfThree ==
    /\ Scanned /\ Len(la.items) = 5
    /\ \A i \in 1..5 : Equal(ItemId(la.items[i]), <<Id1, Id5, Id2, Id7, Id3>>[i])
    /\ \A i \in 1..5 : Equal(ItemSlug(la.items[i]), <<SlugA, SlugB, SlugA, SlugC, SlugA>>[i])
    /\ report.collections[1].duplicateSlugs = <<[slug |-> SlugA, itemIds |-> <<Id1, Id2, Id3>>]>>

\* two items that carry the slug {x: 1}: no group is reported
ObjectSlugsUngrouped ==
    /\ Scanned /\ Len(la.items) = 2
    /\ \A i \in 1..2 : Equal(ItemSlug(la.items[i]), SlugObject)
    /\ report.collections[1].duplicateSlugs = <<>>

\* the item of the list a suggestion is about
ItemWithId(items, id) == items[CHOOSE i \in 1..Len(items) : Equal(ItemId(items[i]), id)]

\* C13 as stated: the _draft and _archived values of every suggested patch body
\* are the item's draft and archived flags as the classification resolves them.
C13_PatchPreservesFlags ==
    Scanned =>
        \A k \in 1..Len(report.collections[1].patchSuggestions) :
            LET p == report.collections[1].patchSuggestions[k]
                it == ItemWithId(la.items, p.itemId)
            IN  /\ p.patch.fieldData._draft = IsDraft(it)
                /\ p.patch.fieldData._archived = IsArchived(it)

\* what the handler does guarantee: the flags of a suggested patch body are the
\* nested fieldData._draft and fieldData._archived of the item, false when absent
PatchCarriesNestedFlags ==
    Scanned =>
        \A k \in 1..Len(report.collections[1].patchSuggestions) :
            LET p == report.collections[1].patchSuggestions[k]
                fd == FieldData(ItemWithId(la.items, p.itemId))
            IN  /\ p.patch.fieldData._draft = Coalesce(Prop(fd, "_draft"), FALSE)
                /\ p.patch.fieldData._archived = Coalesce(Prop(fd, "_archived"), FALSE)

\* the last 6 characters of an identifier, the whole of a shorter one
Last6(s) ==
    LET str == StringOf(s)
    IN  [i \in 1..Min(6, Len(str)) |-> str[Len(str) - Min(6, Len(str)) + i]]

NeedsPatch(items, it) ==
    ~Filled(ItemSlug(it)) \/ ~Filled(ItemName(it)) \/ Duplicated(items, ItemSlug(it))

\* the suggestions ps are, in order, those of the items that need one, each
\* with the slug and the name the rules give
SuggestionsFollowRules(items, ps) ==
    LET needers == SelectSeq(items, LAMBDA it : NeedsPatch(items, it))
    IN  /\ Len(ps) = Len(needers)
        /\ \A k \in 1..Min(Len(ps), Len(needers)) :
              LET it == needers[k]
                  ch == ps[k].changes
              IN  /\ Equal(ps[k].itemId, ItemId(it))
                  /\ Has(ch, "slug") <=>
                        (~Filled(ItemSlug(it)) \/ Duplicated(items, ItemSlug(it)))
                  /\ (Has(ch, "slug") /\ ~Filled(ItemSlug(it))) =>
                        ch.slug = <<"a", "u", "t", "o", "-">> \o Last6(ItemId(it))
                  /\ (Has(ch, "slug") /\ Filled(ItemSlug(it))) =>
                        ch.slug = StringOf(ItemSlug(it)) \o <<"-">> \o Last6(ItemId(it))
                  /\ Has(ch, "name") <=> ~Filled(ItemName(it))
                  /\ Has(ch, "slug") => ps[k].patch.fieldData.slug = ch.slug

\* C14 as stated: the suggestions are, in order, those of the items that have
\* no slug, no name or a duplicated slug; the changes hold a slug exactly when
\* the slug is missing ("auto-" and the last 6 characters of the id) or
\* duplicated (the slug, "-" and the same suffix), first member of a group
\* included, and a name exactly when the name is missing.
C14_PatchSuggestionRules ==
    Scanned => SuggestionsFollowRules(la.items, report.collections[1].patchSuggestions)

\* every item has an identifier of its own, which no other item has
OwnIds(items) ==
    /\ \A i \in 1..Len(items) : Filled(ItemId(items[i]))
    /\ \A i, j \in 1..Len(items) : i # j => ~Equal(ItemId(items[i]), ItemId(items[j]))

\* what the handler does guarantee: the statement holds of the lists whose items
\* have primitive slugs and identifiers of their own, where looking a group up
\* by identifier is looking it up by slug
SuggestionsWhenIdsAreOwn ==
    (Scanned /\ OwnIds(la.items) /\ \A i \in 1..Len(la.items) : PrimitiveSlug(la.items[i])) =>
        SuggestionsFollowRules(la.items, report.collections[1].patchSuggestions)

\* the first member of a group, a short identifier without slug or name, and an
\* item that needs nothing
SuggestionsOfAGroup ==
    /\ Scanned /\ Len(la.items) = 4
    /\ \A i \in 1..4 : Equal(ItemId(la.items[i]), <<Id1, Id7, Id6, Id2>>[i])
    /\ Len(report.collections[1].patchSuggestions) = 3
    /\ report.collections[1].patchSuggestions[1].changes =
          [slug |-> <<"a", "-", "a", "b", "c", "d", "e", "1">>]
    /\ report.collections[1].patchSuggestions[2].changes =
          [slug |-> <<"a", "u", "t", "o", "-", "k", "6">>,
           name |-> StrMissingName \o <<"k", "6">>]
    /\ report.collections[1].patchSuggestions[3].itemId = Id2

\* items without identifiers and with the slugs a, a, b: the third, whose slug
\* no other item carries, is given the slug change "b-efined"
UniqueSlugChanged ==
    /\ Scanned /\ Len(la.items) = 3
    /\ \A i \in 1..3 : ItemId(la.items[i]) = Undef
    /\ \A i \in 1..3 : Equal(ItemSlug(la.items[i]), <<SlugA, SlugA, SlugB>>[i])
    /\ Len(report.collections[1].patchSuggestions) = 3
    /\ report.collections[1].patchSuggestions[3].changes =
          [slug |-> SlugB \o <<"-", "e", "f", "i", "n", "e", "d">>]

------------------------------------------------------------------------------
(* Properties of the audit's upstream traffic (C15 - C18) *)

\* the primary 'collections for site' call and the alternate 'list collections
\* filtered by site' call
IsDiscovery(c) ==
    c.method = "GET" /\ Len(c.path) = 3 /\ c.path[1] = "sites" /\ c.path[3] = "collections"
IsAlternateDiscovery(c) == c.method = "GET" /\ c.path = <<"collections">>
IsItemList(c) ==
    c.method = "GET" /\ Len(c.path) = 3 /\ c.path[1] = "collections" /\ c.path[3] = "items"

Discovering == InAudit /\ Full /\ Truthy(AuditSiteId) /\ cfg.apiKey

\* C15 as stated: a primary discovery call that fails with 400 is followed by
\* exactly one alternate call; one that fails with another status is followed
\* by no second discovery call.
C15_DiscoveryFallbackOn400 ==
    (Discovering /\ ~ResOk(calls[1].reply)) =>
        IF calls[1].reply.status = 400
        THEN Len(calls) >= 2 /\ IsAlternateDiscovery(calls[2])
        ELSE \A j \in 2..Len(calls) : ~IsDiscovery(calls[j]) /\ ~IsAlternateDiscovery(calls[j])

\* C15 amended: collection discovery issues exactly one call, the primary
\* 'collections for site' call; when it fails, with 400 or with any other
\* status, no second discovery call of either form is issued and the failure
\* propagates to the caller (the audit records it as collectionsFetchError and
\* walks no collection).
C15_DiscoveryNotRetried ==
    Discovering =>
        /\ IsDiscovery(calls[1]) /\ calls[1].path[2] = AuditSiteId
        /\ \A j \in 2..Len(calls) : ~IsDiscovery(calls[j]) /\ ~IsAlternateDiscovery(calls[j])
        /\ Len(FetchesOf(1)) = 1
        /\ ResOk(calls[1].reply) =>
              /\ wfRet[1].ok
              /\ collections = CollectionsArr(calls[1].reply.body)
              /\ ~Has(report, "collectionsFetchError")
        /\ ~ResOk(calls[1].reply) =>
              /\ ~wfRet[1].ok
              /\ wfRet[1].error.status = calls[1].reply.status
              /\ report.collectionsFetchError.status = calls[1].reply.status
              /\ report.collectionsFetchError.message = EnvelopeMessage(calls[1].reply)
              /\ collections = <<>> /\ report.totals.collections = 0
              /\ \A j \in 1..Len(calls) : ~IsItemList(calls[j])

\* the discovery is refused with 400 and the audit goes on to its smoke test
C15_Witness ==
    /\ Discovering /\ pc = "done"
    /\ calls[1].reply = ReplyValidation
    /\ Len(calls) = 4 /\ IsCreate(calls[2])
    /\ report.collectionsFetchError.status = 400

\* the position in the walk ids of the collection an item-list call is about
WalkIndex(ids, c) == CHOOSE k \in 1..Len(ids) : ItemsPathOf(ids[k]) = c.path

\* C16: the discovery call, if any, is the first call and the only one of its
\* kind; the item-list calls come collection by collection in discovered order,
\* a collection's fetch having ended (short page or failure) before the next
\* one begins; the smoke test's calls come after every item-list call, once all
\* collections are reported, each step at most once.
C16_CallsStrictlyOrdered ==
    InAudit =>
        LET sc == SmokeCalls
            ids == WalkIds(Len(collections))
        IN  /\ \A j \in 1..Len(calls) :
                  /\ IsDiscovery(calls[j]) => j = 1
                  /\ IsDiscovery(calls[j]) \/ IsItemList(calls[j]) \/ calls[j].method # "GET"
            /\ Discovering => IsDiscovery(calls[1])
            /\ \A j \in 1..Len(calls) - 1 :
                  /\ (IsItemList(calls[j]) /\ IsItemList(calls[j + 1])) =>
                        \/ calls[j].path = calls[j + 1].path
                        \/ /\ WalkIndex(ids, calls[j]) < WalkIndex(ids, calls[j + 1])
                           /\ ShortPage(calls[j]) \/ ~ResOk(calls[j].reply)
                  /\ calls[j].method # "GET" => calls[j + 1].method # "GET"
            /\ sc # <<>> =>
                  /\ Len(report.collections) = Len(collections)
                  /\ cfg.apiKey /\ \A k \in 1..Len(ids) : ListCallsAt(ItemsPathOf(ids[k])) # <<>>
            /\ \A j, k \in 1..Len(sc) :
                  (j # k) =>
                      /\ ~(IsCreate(sc[j]) /\ IsCreate(sc[k]))
                      /\ ~(IsUpdate(sc[j]) /\ IsUpdate(sc[k]))
                      /\ ~(IsPublish(sc[j]) /\ IsPublish(sc[k]))
                      /\ ~(IsDelete(sc[j]) /\ IsDelete(sc[k]))

\* discovery, two pages of the first collection, one page of the second, then
\* create, update, publish and delete
C16_Witness ==
    /\ InAudit /\ pc = "done" /\ Len(calls) = 8
    /\ IsDiscovery(calls[1])
    /\ calls[2].path = <<"collections", "col1", "items">> /\ FullPage(calls[2])
    /\ calls[3].path = <<"collections", "col1", "items">>
    /\ calls[4].path = <<"collections", "col2", "items">>
    /\ IsCreate(calls[5]) /\ IsUpdate(calls[6]) /\ IsPublish(calls[7]) /\ IsDelete(calls[8])

\* C17: an audit with the smoke test disabled sends only GET calls upstream,
\* whatever its collections hold: no POST, PATCH, PUT or DELETE, so that no
\* suggested patch is applied, and no smoke test is recorded.
C17_AuditWithoutSmokeOnlyReads ==
    (InAudit /\ Get(req.query, "doSmoke") = "false") =>
        /\ \A j \in 1..Len(calls) : calls[j].method = "GET" /\ ~Mutating(calls[j].method)
        /\ smoke = Null
        /\ (pc = "done" /\ res.status = 200) => res.body.smokeTest = Null

C17_Witness ==
    /\ InAudit /\ Get(req.query, "doSmoke") = "false" /\ pc = "done"
    /\ Len(calls) = 3 /\ report.totals.items = 137
    /\ res.body.smokeTest = Null

\* the mutation guard's conditions, on the audit request
MutationsApproved ==
    /\ cfg.allowMutations = "true"
    /\ cfg.requireHeader = "true" => ToLower(req.destructive) \in {"true", "yes", "1"}

\* C18 as stated: without mutation approval (mutations disabled on the server, or
\* the destructive header required and absent) the smoke test sends no create,
\* update, publish or delete call.
C18_SmokeRequiresApproval ==
    (InAudit /\ ~MutationsApproved) => SmokeCalls = <<>>

\* what the handler does guarantee: the guard sees the GET of the audit request
\* and lets it pass, so no audit is answered 403 and the smoke test runs whenever
\* doSmoke is true and the collection loop came to its end, approved or not
SmokeRunsUnguarded ==
    (InAudit /\ pc = "done" /\ cfg.apiKey) =>
        /\ res.status # 403
        /\ (res.status = 200 /\ DoSmoke /\ Truthy(TargetCid(report))) => Len(SmokeCalls) >= 1

------------------------------------------------------------------------------
(* Properties of the request pipeline (C19, C20) *)

InPipeline == Has(req, "headers")

GatePassed == InPipeline /\ pc # "arrived" /\ ~(pc = "done" /\ res = Unauthorized)

\* the routes whose handlers call the guard
GuardedRoutes ==
    {"createItem", "updateItem", "deleteItem", "publishItems", "publishCollection",
     "passThrough"}

\* C19: on every route, a POST, PUT, PATCH or DELETE request that passed the gate
\* while mutations are not approved (ALLOW_MUTATIONS not 'true', or the
\* destructive header required and not true/yes/1) is answered 403 and causes no
\* upstream call.
C19_MutationsGuardedOnEveryRoute ==
    (GatePassed /\ pc = "done" /\ Mutating(req.method) /\ ~MutationsApproved) =>
        /\ res.status = 403
        /\ calls = <<>>

\* what does hold: the routes whose handlers call the guard refuse, the explicit
\* routes of part_000 call upstream whatever the guard would say (but for the one
\* that fails on its own before any call)
GuardedRoutesRefuse ==
    (GatePassed /\ pc = "done" /\ Mutating(req.method) /\ ~MutationsApproved) =>
        IF req.route \in GuardedRoutes
        THEN res.status = 403 /\ calls = <<>>
        ELSE IF req.route = "dataApi" /\ DataApiRoutes[req.entry].sends = "form"
        THEN res.status = 500 /\ calls = <<>>
        ELSE Len(calls) = 1 /\ calls[1].method = req.method

\* a TRACE request to a pass-through path is refused by fetch: nothing is sent
\* and the error handler answers 500
TraceNeverSent ==
    (InPipeline /\ req.route = "passThrough" /\ req.method = "TRACE" /\ pc = "done") =>
        /\ calls = <<>>
        /\ (GatePassed /\ cfg.apiKey) =>
              /\ res.status = 500
              /\ res.body.message = "'TRACE' HTTP method is unsupported."

\* C20: with a token configured, a request whose x-api-token header is absent or
\* differs from it is answered 401 before any handler runs and causes no upstream
\* call; with no token configured the gate rejects nothing.
C20_TokenGate ==
    (InPipeline /\ pc # "arrived") =>
        IF cfg.token # <<>> /\ ApiTokenHeader(req) # cfg.token
        THEN pc = "done" /\ res = Unauthorized /\ calls = <<>>
        ELSE res # Unauthorized /\ (pc = "done" => res.status # 401)

\* a token of the wrong length, sent while the right one is in the query string
\* of a mutating request that the guard would have let through, is turned away
C20_Witness ==
    /\ InPipeline /\ pc = "done"
    /\ cfg.token = Tok /\ ApiTokenHeader(req) = <<"t", "o">>
    /\ Has(req.query, "token") /\ req.query.token = Tok
    /\ Mutating(req.method) /\ MutationsApproved
    /\ res.status = 401

------------------------------------------------------------------------------
(* The token in the query string (C21) *)

TokenInQueryOnly ==
    /\ InPipeline
    /\ cfg.token = Tok
    /\ ~Has(req.headers, "x-api-token")
    /\ Has(req.query, "token") /\ req.query.token = Tok

\* C21: with a token configured, a request that carries the right token as the
\* ?token= query parameter and no x-api-token header passes the gate, as one
\* carrying it in the header does.
C21_QueryTokenAccepted ==
    (TokenInQueryOnly /\ pc # "arrived") => res # Unauthorized

\* what the gate does: the query string is never read, such a request gets 401
QueryTokenIgnored ==
    (TokenInQueryOnly /\ pc # "arrived") => (pc = "done" /\ res = Unauthorized /\ calls = <<>>)

------------------------------------------------------------------------------
(* Validation of the publish request (C22) *)

IsPublishRequest == InPipeline /\ req.route \in {"publishItems", "publishCollection"}

\* the body's itemIds is absent, not an array, or an array without elements
NoItemIdsGiven ==
    \/ ~Has(req.body, "itemIds")
    \/ ~Has(req.body.itemIds, "array")
    \/ req.body.itemIds.array = <<>>

\* C22 as stated: a publish request whose itemIds is not an array or is an empty
\* array is rejected with status 400, and no upstream call is made for it.
C22_BadItemIdsAlways400 ==
    (IsPublishRequest /\ NoItemIdsGiven /\ pc = "done") =>
        /\ res.status = 400
        /\ calls = <<>>

\* C22 amended: a publish request whose itemIds is not an array or is an empty
\* array causes no upstream call; it is answered 401 when the token gate refuses
\* it, 403 when the mutation guard refuses it, and otherwise 400 ('itemIds[]
\* required').
C22_PublishNeedsItemIds ==
    (IsPublishRequest /\ NoItemIdsGiven) =>
        /\ calls = <<>>
        /\ pc = "done" =>
              IF ~GatePassed THEN res = Unauthorized
              ELSE IF ~MutationsApproved THEN res.status = 403
              ELSE /\ res.status = 400
                   /\ res.body.message = "itemIds[] required"

\* an approved publish request with an empty array, answered 400
C22_Witness ==
    /\ IsPublishRequest /\ pc = "done"
    /\ Has(req.body, "itemIds") /\ Has(req.body.itemIds, "array")
    /\ req.body.itemIds.array = <<>>
    /\ MutationsApproved
    /\ res.status = 400 /\ calls = <<>>

\* a publish request with an empty array and without the destructive header,
\* answered 403 by the guard before its itemIds is looked at
EmptyItemIdsRefusedByGuard ==
    /\ IsPublishRequest /\ pc = "done"
    /\ Has(req.body, "itemIds") /\ Has(req.body.itemIds, "array")
    /\ req.body.itemIds.array = <<>>
    /\ GatePassed /\ ~MutationsApproved
    /\ res.status = 403 /\ calls = <<>>

\* the other side: with at least one id, an approved request does reach upstream
PublishWithIdsCallsUpstream ==
    (IsPublishRequest /\ ~NoItemIdsGiven /\ pc = "done" /\ GatePassed /\ MutationsApproved) =>
        /\ Len(calls) = 1
        /\ calls[1].body.itemIds = req.body.itemIds.array

------------------------------------------------------------------------------
(* One resolution of the lifecycle flags (C23) *)

InSeq(x, s) == \E i \in 1..Len(s) : Equal(s[i], x)

\* C23: the places that read an item's draft or archived flag resolve the same
\* value for it: an item for which a patch is suggested is classified as a draft
\* exactly when the suggested patch body says _draft = true, and as archived
\* exactly when it says _archived = true.
C23_FlagsResolvedAlike ==
    Scanned =>
        \A k \in 1..Len(report.collections[1].patchSuggestions) :
            LET p == report.collections[1].patchSuggestions[k]
            IN  /\ p.patch.fieldData._draft <=> InSeq(p.itemId, Drafts(la.items))
                /\ p.patch.fieldData._archived <=> InSeq(p.itemId, Archived(la.items))

\* the two readers agree on the items that carry no top-level flag of either name
FlagsAgreeWithoutTopLevelFlag ==
    Scanned =>
        \A k \in 1..Len(report.collections[1].patchSuggestions) :
            LET p == report.collections[1].patchSuggestions[k]
                it == ItemWithId(la.items, p.itemId)
            IN  /\ ~(Has(it, "isDraft") \/ Has(it, "_draft")) =>
                      (p.patch.fieldData._draft <=> InSeq(p.itemId, Drafts(la.items)))
                /\ ~(Has(it, "isArchived") \/ Has(it, "_archived")) =>
                      (p.patch.fieldData._archived <=> InSeq(p.itemId, Archived(la.items)))

------------------------------------------------------------------------------
(* The lifecycle flags of a write (C24) *)

IsItemWrite == req.route \in {"createItem", "updateItem"}

\* the body has a fieldData wrapper (an object)
Wrapped == Has(req.body, "fieldData") /\ TypeOf(req.body.fieldData) = "object"

\* the field-data map the caller sent: the fieldData wrapper, or the flat body
SentFieldData == IF Wrapped THEN req.body.fieldData ELSE req.body

\* the flag as the two-step order resolves it: the map's own flag, then the
\* input's alternate-named field, then false
FlagInTwoSteps(nested, alternate) ==
    IF Has(SentFieldData, nested) THEN SentFieldData[nested]
    ELSE IF Has(req.body, alternate) THEN Truthy(req.body[alternate])
    ELSE FALSE

\* the same with the input's own underscore-named field asked before the default
FlagInThreeSteps(nested, alternate) ==
    IF Has(SentFieldData, nested) THEN SentFieldData[nested]
    ELSE IF Has(req.body, alternate) THEN Truthy(req.body[alternate])
    ELSE IF Has(req.body, nested) THEN Truthy(req.body[nested])
    ELSE FALSE

\* the upstream request body carries the flags d and a, at the top level and in fieldData
CarriesFlags(body, d, a) ==
    /\ Has(body, "isDraft") /\ Has(body, "isArchived")
    /\ Has(body.fieldData, "_draft") /\ Has(body.fieldData, "_archived")
    /\ body.isDraft = d /\ body.fieldData._draft = d
    /\ body.isArchived = a /\ body.fieldData._archived = a

\* C24 as stated: every create or update sent upstream carries both flags, each
\* resolved as: the flag in the field-data map, else the input's isDraft /
\* isArchived, else false.
C24_WriteFlagsInTwoSteps ==
    IsItemWrite =>
        \A k \in 1..Len(calls) :
            CarriesFlags(calls[k].body, FlagInTwoSteps("_draft", "isDraft"),
                         FlagInTwoSteps("_archived", "isArchived"))

\* C24 amended: every create or update sent upstream carries both flags, each
\* resolved as: the flag in the field-data map, else the input's isDraft /
\* isArchived, else the input's own _draft / _archived, else false; with a
\* fieldData wrapper or a flat body alike.
C24_WriteFlagsInThreeSteps ==
    IsItemWrite =>
        \A k \in 1..Len(calls) :
            /\ calls[k].method \in {"POST", "PATCH"}
            /\ CarriesFlags(calls[k].body, FlagInThreeSteps("_draft", "isDraft"),
                            FlagInThreeSteps("_archived", "isArchived"))

\* a wrapped body with nested _archived, a contrary isArchived and a top-level
\* _draft only: sent as archived and as a draft
C24_Witness ==
    /\ IsItemWrite /\ pc = "done" /\ Len(calls) = 1
    /\ Wrapped /\ Has(req.body.fieldData, "_archived")
    /\ Has(req.body, "isArchived") /\ ~Truthy(req.body.isArchived)
    /\ ~Has(req.body, "isDraft") /\ Has(req.body, "_draft")
    /\ calls[1].body.isArchived = TRUE
    /\ calls[1].body.isDraft = TRUE

------------------------------------------------------------------------------
(* The safe-mode summary under every order of completion (C25) *)

InSafeSummary == req.route = "collections" /\ Get(req.query, "full") # "true"

\* the lookup of position i failed: no key to call with, or its fetch was answered
\* with an error or not at all
LookupFailed(i) == ~cfg.apiKey \/ ~ResOk(calls[i].reply)

\* C25: in the safe-mode summary all lookups are started before any completes and
\* the response is written only when all have settled; whatever the order of
\* completion, the response is 200 with one entry per configured collection in
\* configured order, and the entry of a lookup is ok exactly when that lookup
\* succeeded, a failure showing as ok = false with its own status.
C25_SummaryInConfiguredOrder ==
    (InSafeSummary /\ pc # "start") =>
        /\ Len(results) = Len(SafeIds)
        /\ cfg.apiKey => Len(calls) = Len(SafeIds)
        /\ res.written <=> NumSettled(results) = Len(results)
        /\ res.written =>
              /\ pc = "done" /\ res.status = 200
              /\ res.body.count = Len(SafeIds)
              /\ Len(res.body.collections) = Len(SafeIds)
              /\ \A i \in 1..Len(SafeIds) :
                    LET e == res.body.collections[i]
                    IN  /\ e.id = SafeIds[i]
                        /\ e.ok <=> ~LookupFailed(i)
                        /\ ~e.ok =>
                              e.error.status =
                                  IF cfg.apiKey /\ calls[i].reply.status # 0
                                  THEN calls[i].reply.status ELSE 500
                        /\ e.ok =>
                              e.name = Or(Get(calls[i].reply.body, "name"),
                                          Or(Get(calls[i].reply.body, "displayName"), "Unknown"))

\* two lookups were in flight together, the second completed first and succeeded,
\* the first failed afterwards
C25_Witness ==
    /\ InSafeSummary /\ pc = "done"
    /\ Len(results) = 2
    /\ results[1].order = 2 /\ results[2].order = 1
    /\ ~res.body.collections[1].ok
    /\ res.body.collections[2].ok

\* both fetches are out while no lookup has completed
BothLookupsInFlight ==
    /\ InSafeSummary /\ pc = "lookups"
    /\ Len(calls) = 2 /\ NumSettled(results) = 0

------------------------------------------------------------------------------
(* The slugs of smoke test runs (C26) *)

IsRunCreate(c) == Has(c, "run") /\ c.method = "POST"

\* C26: any two smoke test runs, also those of two audit requests in progress at
\* a time, create their test items with different slugs.
C26_SmokeSlugsDiffer ==
    \A i, j \in 1..Len(calls) :
        (i # j /\ IsRunCreate(calls[i]) /\ IsRunCreate(calls[j])) =>
            calls[i].body.fieldData.slug # calls[j].body.fieldData.slug

\* what the timestamp does give: runs that read the clock in different
\* milliseconds have different slugs, runs that read it in the same have the same
SlugsDifferExactlyAcrossTicks ==
    \A i, j \in 1..Len(calls) :
        (i # j /\ IsRunCreate(calls[i]) /\ IsRunCreate(calls[j])) =>
            (calls[i].body.fieldData.slug = calls[j].body.fieldData.slug
                <=> runs[calls[i].run].ts = runs[calls[j].run].ts)

------------------------------------------------------------------------------
(* The stage records of the smoke test (C27) *)

Recorded(stage) == Has(smoke, stage)

\* the k-th request of the smoke test is of the given kind and was answered with success
StageCallOk(k, IsKind(_)) ==
    /\ Len(SmokeCalls) >= k
    /\ IsKind(SmokeCalls[k])
    /\ ResOk(SmokeCalls[k].reply)

\* C27: the stage records of a smoke test form a prefix of created, updated,
\* (published,) deleted: a stage is recorded, and then as ok, only if its own call
\* was answered with success and every earlier stage is recorded; and the result
\* has ok = true exactly when created, updated and deleted are all recorded.
C27_StageRecordsFormPrefix ==
    (InAudit /\ smoke # Null) =>
        /\ Recorded("created") => smoke.created.ok /\ StageCallOk(1, IsCreate)
        /\ Recorded("updated") =>
              smoke.updated.ok /\ Recorded("created") /\ StageCallOk(2, IsUpdate)
        /\ Recorded("published") =>
              /\ smoke.published.ok /\ Recorded("updated")
              /\ Publish /\ StageCallOk(3, IsPublish)
        /\ Recorded("deleted") =>
              /\ smoke.deleted.ok /\ Recorded("updated")
              /\ Publish => Recorded("published")
              /\ StageCallOk(IF Publish THEN 4 ELSE 3, IsDelete)
        /\ Recorded("ok") =>
              /\ pc = "done"
              /\ smoke.ok <=> (Recorded("created") /\ Recorded("updated") /\ Recorded("deleted"))
        /\ (pc = "done" /\ res.status = 200) => Recorded("ok") /\ res.body.smokeTest = smoke

\* publishing requested and done, the delete refused: created, updated and
\* published are on record, deleted is not, and the run is not ok
C27_Witness ==
    /\ InAudit /\ pc = "done" /\ smoke # Null
    /\ Recorded("created") /\ Recorded("updated") /\ Recorded("published")
    /\ ~Recorded("deleted")
    /\ Len(SmokeCalls) = 4 /\ ~ResOk(SmokeCalls[4].reply)
    /\ smoke.ok = FALSE

------------------------------------------------------------------------------
(* A failed discovery in a full-mode audit (C28) *)

\* the discovery of a full-mode audit failed: no site id to ask for, no key to
\* ask with, or the upstream refused the call
DiscoveryFailed ==
    /\ InAudit /\ Full
    /\ \/ ~Truthy(AuditSiteId)
       \/ ~cfg.apiKey
       \/ Len(calls) >= 1 /\ IsDiscovery(calls[1]) /\ ~ResOk(calls[1].reply)

\* C28: in a full-mode audit a failed discovery (an upstream error, or no site
\* id) does not fail the request: it is recorded in report.collectionsFetchError,
\* the report keeps status 'ok' with no collections and no items, no item fetch is
\* sent, the response is 200, and the smoke test still runs when requested.
C28_DiscoveryFailureIsRecorded ==
    DiscoveryFailed =>
        /\ Has(report, "collectionsFetchError")
        /\ report.collectionsFetchError.status =
              IF ~Truthy(AuditSiteId) THEN 400
              ELSE IF ~cfg.apiKey THEN 500
              ELSE calls[1].reply.status
        /\ report.status = "ok"
        /\ report.totals = [collections |-> 0, items |-> 0]
        /\ report.collections = <<>>
        /\ \A k \in 1..Len(calls) : ~IsItemList(calls[k])
        /\ pc = "done" =>
              /\ res.status = 200 /\ res.body.status = "ok"
              /\ Has(res.body, "collectionsFetchError")
              /\ IF DoSmoke
                 THEN /\ res.body.smokeTest # Null
                      /\ (cfg.apiKey /\ Truthy(TargetCid(report))) =>
                            Len(SmokeCalls) >= 1 /\ IsCreate(SmokeCalls[1])
                 ELSE res.body.smokeTest = Null /\ SmokeCalls = <<>>

\* the upstream refuses the discovery with 500; the smoke test then runs to its end
C28_Witness ==
    /\ DiscoveryFailed /\ pc = "done"
    /\ Len(calls) = 4 /\ calls[1].reply = ReplyServerError
    /\ report.collectionsFetchError.status = 500
    /\ res.body.smokeTest.ok = TRUE

\* the same without a site id: no call for the discovery at all
MissingSiteIdIsRecorded ==
    /\ DiscoveryFailed /\ pc = "done" /\ ~Truthy(AuditSiteId)
    /\ report.collectionsFetchError.message = "Missing siteId (and WEBFLOW_SITE_ID not set)"
    /\ res.status = 200

------------------------------------------------------------------------------
(* The answers of POST /mcp (C29) *)

InMcp == req.route = "mcp"

\* the messages among the first n of the batch that ask for an answer
RequestsUpTo(n) == SelectSeq(SubSeq(Batch, 1, n), IsRequest)

\* the responses in the reply: the array of a batch, or the one object
Payload ==
    IF res.status # 200 THEN <<>>
    ELSE IF Has(req.body, "array") THEN res.body ELSE <<res.body>>

\* C29: the reply to POST /mcp holds exactly one response for each message with a
\* non-null id and a string method, in batch order and with that message's id,
\* whether or not an earlier tool call failed; the other messages get none; and
\* the status is 202 without a body exactly when there is no response, else 200.
C29_OneResponsePerRequest ==
    InMcp =>
        /\ pc = "mcp" => Len(responses) = Len(RequestsUpTo(mi - 1))
        /\ pc = "done" =>
              \A q \in {RequestsUpTo(Len(Batch))}, p \in {Payload} :
                  /\ res.status = IF q = <<>> THEN 202 ELSE 200
                  /\ res.status = 202 => res.body = NoBody
                  /\ Len(p) = Len(q)
                  /\ \A k \in 1..Len(q) :
                        /\ p[k].jsonrpc = "2.0"
                        /\ p[k].id = q[k].id
                        /\ Has(p[k], "result") # Has(p[k], "error")

\* a batch of a tool call that the upstream refuses, a notification and an
\* initialize request: two responses, the first one the tool's error
C29_Witness ==
    /\ InMcp /\ pc = "done" /\ Has(req.body, "array")
    /\ Len(Batch) = 3
    /\ NeedsUpstream(Batch[1]) /\ Len(calls) = 1 /\ ~ResOk(calls[1].reply)
    /\ IsNotification(Batch[2])
    /\ IsRequest(Batch[3]) /\ Batch[3].method = "initialize"
    /\ res.status = 200 /\ Len(res.body) = 2
    /\ res.body[1].id = Batch[1].id /\ res.body[1].result.isError
    /\ res.body[2].id = Batch[3].id

\* a batch of notifications only is answered 202
OnlyNotificationsAccepted ==
    /\ InMcp /\ pc = "done" /\ Len(Batch) = 2
    /\ IsNotification(Batch[1]) /\ IsNotification(Batch[2])
    /\ res.status = 202

\* the REST helpers of the first server
InRest == req.route \in {"restCollections", "restItems", "restCreateItem", "restPublish"}

\* a REST helper answers after exactly one upstream call, 200 with the parsed
\* reply or 500 with its own message; its POST requests are sent although
\* ALLOW_MUTATIONS is not 'true'
RestHelpersCallUpstream ==
    (InRest /\ pc = "done") =>
        /\ Len(calls) = 1
        /\ calls[1].method = req.method
        /\ cfg.allowMutations = "false"
        /\ IF ~calls[1].reply.net /\ ResOk(calls[1].reply)
           THEN res = JsonResponse(200, wfRet[1].data)
           ELSE res.status = 500 /\ DOMAIN res.body = {"error"}

\* POST /publish answered 200 with the upstream's reply
RestPublished ==
    /\ req.route = "restPublish" /\ pc = "done" /\ res.status = 200
    /\ calls[1].path = <<"sites", "siteEnv", "publish">>
    /\ calls[1].body = [publishToWebflow |-> TRUE]

------------------------------------------------------------------------------
(* The registry of event streams (C30) *)

OpenStreams == {c \in Clients : conn[c].state = "open"}
\* the streams of GET /mcp
McpStreams == {c \in Clients : conn[c].route = "mcp"}

\* C30: after any interleaving of opens and closes, sseClients holds exactly the
\* GET /mcp streams opened and not yet closed, the timer of a GET /mcp stream is
\* set exactly while the stream is open, and no heartbeat was written to such a
\* stream after its close.
C30_RegistryIsTheOpenStreams ==
    /\ sseClients = OpenStreams \cap McpStreams
    /\ intervals \cap McpStreams = OpenStreams \cap McpStreams
    /\ \A c \in McpStreams : conn[c].late = 0

\* two GET /mcp streams and a legacy stream were opened; the second GET /mcp
\* stream was closed after a heartbeat while the other two are still open: two
\* open streams, two timers, one member of the registry
C30_Witness ==
    /\ conn[1].state = "open" /\ conn[1].route = "mcp" /\ conn[1].beats = MaxBeats
    /\ conn[2].state = "closed" /\ conn[2].route = "mcp" /\ conn[2].beats = 1
    /\ conn[3].state = "open" /\ conn[3].route = "sse"
    /\ sseClients = {1} /\ intervals = {1, 3}

\* on every route the timers set are the timers of the open streams, and an
\* open stream has its first events and one heartbeat event for each firing
TimersAreTheOpenStreams ==
    /\ intervals = OpenStreams
    /\ \A c \in Clients :
          /\ conn[c].late = 0
          /\ conn[c].state = "open" =>
                /\ conn[c].events = Len(conn[c].written)
                /\ conn[c].events = conn[c].beats
                                      + (IF conn[c].server = 1 /\ conn[c].route = "sse"
                                         THEN 2 ELSE 1)

\* the streams of the legacy GET /sse never enter the registry
LegacyStreamsUnregistered ==
    \A c \in Clients : conn[c].route = "sse" => c \notin sseClients

\* the second server refuses a stream exactly when its gate rejects the request
RefusedOnlyByTheGate ==
    \A c \in Clients :
        conn[c].state = "refused" =>
            /\ conn[c].server = 2 /\ cfg.token = Tok
            /\ conn[c].status = 401 /\ conn[c].events = 0 /\ c \notin intervals

\* a closed stream of the second server: its timer is cleared and its response
\* was not ended
HelloStreamLeftOpen ==
    \E c \in Clients :
        /\ conn[c].server = 2 /\ conn[c].state = "closed" /\ ~conn[c].ended
        /\ conn[c].written = <<"hello", "heartbeat">>
        /\ c \notin intervals

====
